---- MODULE Spec2Model ----
(***************************************************************************)
(* Model of the documentation-packaging scripts: the build (snippet       *)
(* parsing, placeholder expansion, per-language variants, index) and the   *)
(* two code-example validators.                                            *)
(*                                                                         *)
(* Text is a sequence of tokens.  A token stands for one character or for  *)
(* a run of characters none of the patterns tells apart ("CODE:",          *)
(* "@snippet:", "Intro\n", ...).                                            *)
(***************************************************************************)
EXTENDS Integers, Sequences, FiniteSets, TLC

VARIABLES
    program,         \* which script runs: "expand", "build", "validate"
    pc,              \* position of the script
    template,        \* template text (build: the template of the current topic)
    snippets,        \* name -> body (build: the snippets of the current variant)
    language,        \* target language (build: the language loop variable;
                     \* validators: the language validated)
    templatePath,    \* path named in the expansion error
    expansion,       \* outcome of the last replaceCodePlaceholders call
    skillDirs,       \* main: result of getSkillDirs
    skillIdx,        \* main: position of the skill loop
    thrown,          \* the error that reached main().catch, if any
    exitCode,        \* exit code of the process (meaningful once pc = "exited")
    templates,       \* buildSkill: result of getTemplates
    templateIdx,     \* buildSkill: position of the template loop
    templateInfos,   \* buildSkill: TemplateInfo list of the current skill
    mdFiles,         \* copyGeneralMarkdownFiles: the listed .md files
    mdIdx,           \* copyGeneralMarkdownFiles: position of the copy loop
    generalFiles,    \* copyGeneralMarkdownFiles: GeneralFileInfo list
    discovered,      \* per skill position: the templates getTemplates returned
    outFiles,        \* the files written so far: path -> content
    warnings,        \* console.warn lines
    swallowed,       \* the rejected operations a catch block absorbed
    files,           \* validators: the example files of the current skill
    fileIdx,         \* validators: position of the file loop
    allResults,      \* validators: ValidationResult list
    discoveredFiles, \* validators: every example file discovered so far
    lastRun,         \* validators: what the last execSync call did
    summary,         \* validators: the printed summary
    regions,         \* the snippet regions the file under parse was written from
    parsedContent,   \* the text handed to parseSnippets or parseFrontmatter
    parsedInfo       \* outcome of the last parseFrontmatter call

expandVars == <<template, snippets, language, templatePath, expansion>>

mainVars == <<skillDirs, skillIdx, thrown, exitCode>>

buildVars == <<templates, templateIdx, templateInfos, mdFiles, mdIdx, generalFiles,
               discovered, outFiles, warnings, swallowed>>

validateVars == <<files, fileIdx, allResults, discoveredFiles, lastRun, summary>>

parseVars == <<regions, parsedContent, parsedInfo>>

vars == <<program, pc, expandVars, mainVars, buildVars, validateVars, parseVars>>

-----------------------------------------------------------------------------
(* Bounds *)

MaxSegs == 3

MaxSkills == 2

MaxTopics == 2

MaxGeneral == 2

\* at most this many rejected operations are absorbed in one run
MaxSwallowed == 2

-----------------------------------------------------------------------------
(* Constants of the build script *)

LANGUAGES == <<"typescript", "python">>

LANG_EXTENSIONS == [typescript |-> "ts", python |-> "py"]

\* a file or directory name is a sequence of tokens, a path a sequence of names
SRC_DIR == <<"src">>

OUTPUT_DIR == <<"skills">>

Range(s) == {s[i] : i \in 1..Len(s)}

RECURSIVE Flatten(_)
Flatten(ss) == IF ss = <<>> THEN <<>> ELSE Head(ss) \o Flatten(Tail(ss))

\* Array.prototype.join over token sequences
RECURSIVE Join(_, _)
Join(ss, sep) ==
    IF ss = <<>> THEN <<>>
    ELSE IF Len(ss) = 1 THEN Head(ss)
    ELSE Head(ss) \o <<sep>> \o Join(Tail(ss), sep)

-----------------------------------------------------------------------------
(* Text helpers: \s, String.prototype.trim *)

IsSpace(c) == c \in {" ", "\n"}

\* first position at or after j that holds no whitespace (Len + 1 when none)
RECURSIVE SkipSpace(_, _)
SkipSpace(t, j) ==
    IF j > Len(t) THEN j
    ELSE IF IsSpace(t[j]) THEN SkipSpace(t, j + 1)
    ELSE j

\* first position at or after j that holds whitespace (Len + 1 when none)
RECURSIVE SkipNonSpace(_, _)
SkipNonSpace(t, j) ==
    IF j > Len(t) THEN j
    ELSE IF IsSpace(t[j]) THEN j
    ELSE SkipNonSpace(t, j + 1)

RECURSIVE TrimEnd(_)
TrimEnd(t) ==
    IF t = <<>> THEN <<>>
    ELSE IF IsSpace(t[Len(t)]) THEN TrimEnd(SubSeq(t, 1, Len(t) - 1))
    ELSE t

Trim(t) == TrimEnd(SubSeq(t, SkipSpace(t, 1), Len(t)))

-----------------------------------------------------------------------------
(* parseFrontmatter *)

\* first position p at or after j with t[p] = "\n" and t[p + 1] = "---", else 0
RECURSIVE FrontmatterEnd(_, _)
FrontmatterEnd(t, j) ==
    IF j + 1 > Len(t) THEN 0
    ELSE IF t[j] = "\n" /\ t[j + 1] = "---" THEN j
    ELSE FrontmatterEnd(t, j + 1)

\* content.match(/^---\n([\s\S]*?)\n---/): the captured header block
FrontmatterMatch(content) ==
    IF Len(content) >= 2 /\ content[1] = "---" /\ content[2] = "\n"
    THEN LET p == FrontmatterEnd(content, 3)
         IN  IF p = 0 THEN [matched |-> FALSE, block |-> <<>>]
             ELSE [matched |-> TRUE, block |-> SubSeq(content, 3, p - 1)]
    ELSE [matched |-> FALSE, block |-> <<>>]

\* first position at or after j that holds "\n" (Len + 1 when none)
RECURSIVE LineEnd(_, _)
LineEnd(t, j) ==
    IF j > Len(t) THEN j
    ELSE IF t[j] = "\n" THEN j
    ELSE LineEnd(t, j + 1)

\* /^key\s*(.+)$/m tried with the key at position i (a line start): \s* is
\* greedy and may run over line ends, (.+) is the rest of the line it stops
\* on; when the whitespace runs to the end of a line or of the text, \s*
\* gives back blanks for (.+) to take
FieldAt(t, i, key) ==
    IF t[i] # key THEN [matched |-> FALSE, value |-> <<>>]
    ELSE LET q == SkipSpace(t, i + 1)
             \* positions \s* may stop at: i + 1 .. q, the longest run first
             stops == {k \in (i + 1)..q : k <= Len(t) /\ t[k] # "\n"}
         IN  IF stops = {} THEN [matched |-> FALSE, value |-> <<>>]
             ELSE LET k == CHOOSE x \in stops : \A y \in stops : y <= x
                  IN  [matched |-> TRUE, value |-> SubSeq(t, k, LineEnd(t, k) - 1)]

\* the first match of /^key\s*(.+)$/m in t, scanning line starts from i
RECURSIVE FieldMatch(_, _, _)
FieldMatch(t, i, key) ==
    IF i > Len(t) THEN [matched |-> FALSE, value |-> <<>>]
    ELSE LET m == IF i = 1 \/ t[i - 1] = "\n"
                  THEN FieldAt(t, i, key)
                  ELSE [matched |-> FALSE, value |-> <<>>]
         IN  IF m.matched THEN m ELSE FieldMatch(t, i + 1, key)

\* mutant: the fields are looked up in the whole document, header or not
parseFrontmatter_WholeDocument(content) ==
    LET nameMatch == FieldMatch(content, 1, "name:")
        descMatch == FieldMatch(content, 1, "description:")
    IN  [name |-> IF nameMatch.matched THEN Trim(nameMatch.value) ELSE <<>>,
         description |-> IF descMatch.matched THEN Trim(descMatch.value) ELSE <<>>]

parseFrontmatter(content) ==
    LET match == FrontmatterMatch(content)
    IN  IF ~match.matched THEN [name |-> <<>>, description |-> <<>>]
        ELSE LET nameMatch == FieldMatch(match.block, 1, "name:")
                 descMatch == FieldMatch(match.block, 1, "description:")
             IN  [name |-> IF nameMatch.matched THEN Trim(nameMatch.value) ELSE <<>>,
                  description |->
                      IF descMatch.matched THEN Trim(descMatch.value) ELSE <<>>]

-----------------------------------------------------------------------------
(* parseSnippets *)

\* /\n\s*(?:\/\/|#)\s*@end/ tried at position p: position of "@end", else 0
EndMarkerAt(t, p) ==
    IF p <= Len(t) /\ t[p] = "\n"
    THEN LET q == SkipSpace(t, p + 1)
         IN  IF q <= Len(t) /\ t[q] \in {"//", "#"}
             THEN LET r == SkipSpace(t, q + 1)
                  IN  IF r <= Len(t) /\ t[r] = "@end" THEN r ELSE 0
             ELSE 0
    ELSE 0

\* first position p at or after j where the end marker matches, else 0
RECURSIVE FirstEndMarker(_, _)
FirstEndMarker(t, j) ==
    IF j > Len(t) THEN 0
    ELSE IF EndMarkerAt(t, j) # 0 THEN j
    ELSE FirstEndMarker(t, j + 1)

\* /@snippet:(\S+)\s*\n([\s\S]*?)\n\s*(?:\/\/|#)\s*@end/ tried at position i.
\* (\S+) is the whole run of non-blank tokens; \s*\n ends on a line end of
\* the blank run after the name, the last one first; the body is lazy and
\* stops before the first end marker after it.
SnippetAt(t, i) ==
    LET none == [matched |-> FALSE, name |-> <<>>, code |-> <<>>, to |-> 0]
    IN  IF t[i] # "@snippet:" THEN none
        ELSE LET n == SkipNonSpace(t, i + 1)   \* first position after the name
                 w == SkipSpace(t, n)          \* first position after the blanks
                 ks == {k \in n..(w - 1) : t[k] = "\n" /\ FirstEndMarker(t, k + 1) # 0}
             IN  IF n = i + 1 \/ ks = {} THEN none
                 ELSE LET k == CHOOSE x \in ks : \A y \in ks : y <= x
                          p == FirstEndMarker(t, k + 1)
                      IN  [matched |-> TRUE,
                           name |-> SubSeq(t, i + 1, n - 1),
                           code |-> SubSeq(t, k + 1, p - 1),
                           to |-> EndMarkerAt(t, p)]

\* Map.set
MapSet(m, k, v) == [x \in DOMAIN m \cup {k} |-> IF x = k THEN v ELSE m[x]]

EmptyMap == [x \in {} |-> <<>>]

\* the regex.exec loop: matches left to right, each stored under its name
RECURSIVE ParseSnippetsFrom(_, _, _)
ParseSnippetsFrom(t, i, acc) ==
    IF i > Len(t) THEN acc
    ELSE LET m == SnippetAt(t, i)
         IN  IF m.matched
             THEN ParseSnippetsFrom(t, m.to + 1, MapSet(acc, m.name, Trim(m.code)))
             ELSE ParseSnippetsFrom(t, i + 1, acc)

parseSnippets(content) == ParseSnippetsFrom(content, 1, EmptyMap)

-----------------------------------------------------------------------------
(* replaceCodePlaceholders *)

\* position of the first "}" at or after j, 0 when there is none
RECURSIVE FirstClose(_, _)
FirstClose(t, j) ==
    IF j > Len(t) THEN 0
    ELSE IF t[j] = "}" THEN j
    ELSE FirstClose(t, j + 1)

\* /\{\{CODE:([^}]+)\}\}/ tried at position i: position of the last token of
\* the match, 0 when the pattern does not match at i
PlaceholderAt(t, i) ==
    IF i + 2 <= Len(t) /\ t[i] = "{" /\ t[i + 1] = "{" /\ t[i + 2] = "CODE:"
    THEN LET j == FirstClose(t, i + 3)
         IN  IF j > i + 3 /\ j + 1 <= Len(t) /\ t[j + 1] = "}" THEN j + 1 ELSE 0
    ELSE 0

\* the matches of the global pattern, left to right, not overlapping
RECURSIVE PlaceholderMatches(_, _)
PlaceholderMatches(t, i) ==
    IF i > Len(t) THEN <<>>
    ELSE LET e == PlaceholderAt(t, i)
         IN  IF e = 0 THEN PlaceholderMatches(t, i + 1)
             ELSE <<[from |-> i, to |-> e, name |-> SubSeq(t, i + 3, e - 2)]>>
                  \o PlaceholderMatches(t, e + 1)

\* Map.get: undefined when the key is absent
MapGet(m, k) ==
    IF k \in DOMAIN m THEN [defined |-> TRUE, value |-> m[k]]
    ELSE [defined |-> FALSE, value |-> <<>>]

\* !code : undefined and the empty string are falsy
Falsy(v) == ~v.defined \/ v.value = <<>>

\* the token for the three backticks of a markdown code fence
Backticks == "(3 backticks)"

CodeFence(lang, code) == <<Backticks, lang, "\n">> \o code \o <<"\n", Backticks>>

\* the replacer callback: the replacement text and whether the name was pushed
\* on missingSnippets
Replacer(match, snippetName, snips, lang) ==
    LET code == MapGet(snips, snippetName)
    IN  IF Falsy(code)
        THEN [text |-> match, missing |-> TRUE]
        ELSE [text |-> CodeFence(IF lang = "typescript" THEN "typescript" ELSE "python",
                                 code.value),
              missing |-> FALSE]

\* String.prototype.replace with a global pattern and a callback: text between
\* matches is copied, each match is replaced by the callback's result (which
\* is not scanned again)
RECURSIVE ReplaceAll(_, _, _, _, _)
ReplaceAll(t, i, ms, snips, lang) ==
    IF ms = <<>> THEN [result |-> SubSeq(t, i, Len(t)), missingSnippets |-> <<>>]
    ELSE LET m == Head(ms)
             r == Replacer(SubSeq(t, m.from, m.to), m.name, snips, lang)
             rest == ReplaceAll(t, m.to + 1, Tail(ms), snips, lang)
         IN  [result |-> SubSeq(t, i, m.from - 1) \o r.text \o rest.result,
              missingSnippets |->
                  (IF r.missing THEN <<m.name>> ELSE <<>>) \o rest.missingSnippets]

\* mutant: the text with the bodies inserted is scanned a second time
replaceCodePlaceholders_Rescans(tmpl, snips, lang, path) ==
    LET first == ReplaceAll(tmpl, 1, PlaceholderMatches(tmpl, 1), snips, lang)
        r == ReplaceAll(first.result, 1, PlaceholderMatches(first.result, 1), snips, lang)
    IN  IF Len(r.missingSnippets) > 0
        THEN [threw |-> TRUE,
              value |-> <<>>,
              missingSnippets |-> r.missingSnippets,
              message |-> <<"Missing snippets for ", lang, " in ", path, ": ">>
                          \o Join(r.missingSnippets, ", ")]
        ELSE [threw |-> FALSE,
              value |-> r.result,
              missingSnippets |-> <<>>,
              message |-> <<>>]

\* mutant: the error names only the first missing snippet
replaceCodePlaceholders_FirstMissingOnly(tmpl, snips, lang, path) ==
    LET r == ReplaceAll(tmpl, 1, PlaceholderMatches(tmpl, 1), snips, lang)
    IN  IF Len(r.missingSnippets) > 0
        THEN [threw |-> TRUE,
              value |-> <<>>,
              missingSnippets |-> <<Head(r.missingSnippets)>>,
              message |-> <<"Missing snippets for ", lang, " in ", path, ": ">>
                          \o Head(r.missingSnippets)]
        ELSE [threw |-> FALSE,
              value |-> r.result,
              missingSnippets |-> <<>>,
              message |-> <<>>]

\* mutant: missing snippets are left in place and the text is returned
replaceCodePlaceholders_NeverThrows(tmpl, snips, lang, path) ==
    LET r == ReplaceAll(tmpl, 1, PlaceholderMatches(tmpl, 1), snips, lang)
    IN  [threw |-> FALSE,
         value |-> r.result,
         missingSnippets |-> <<>>,
         message |-> <<>>]

\* mutant: a template is rejected when no snippet is available at all
replaceCodePlaceholders_EmptyMapThrows(tmpl, snips, lang, path) ==
    LET r == ReplaceAll(tmpl, 1, PlaceholderMatches(tmpl, 1), snips, lang)
    IN  IF Len(r.missingSnippets) > 0 \/ DOMAIN snips = {}
        THEN [threw |-> TRUE,
              value |-> <<>>,
              missingSnippets |-> r.missingSnippets,
              message |-> <<"Missing snippets for ", lang, " in ", path, ": ">>
                          \o Join(r.missingSnippets, ", ")]
        ELSE [threw |-> FALSE,
              value |-> r.result,
              missingSnippets |-> <<>>,
              message |-> <<>>]

replaceCodePlaceholders(tmpl, snips, lang, path) ==
    LET r == ReplaceAll(tmpl, 1, PlaceholderMatches(tmpl, 1), snips, lang)
    IN  IF Len(r.missingSnippets) > 0
        THEN [threw |-> TRUE,
              value |-> <<>>,
              missingSnippets |-> r.missingSnippets,
              message |-> <<"Missing snippets for ", lang, " in ", path, ": ">>
                          \o Join(r.missingSnippets, ", ")]
        ELSE [threw |-> FALSE,
              value |-> r.result,
              missingSnippets |-> <<>>,
              message |-> <<>>]

-----------------------------------------------------------------------------
(* Inputs of replaceCodePlaceholders *)

Placeholder(name) == <<"{", "{", "CODE:">> \o name \o <<"}", "}">>

SnippetNames == {<<"setup">>, <<"b">>}

SnippetBodies == {<<>>, <<"const x = 1;">>, Placeholder(<<"b">>)}

TemplatePieces ==
    {<<"Intro\n">>, <<"\nDone">>, <<"{">>, <<"}">>, <<"CODE:">>}
    \cup {Placeholder(n) : n \in SnippetNames}

RECURSIVE SeqsUpTo(_, _)
SeqsUpTo(S, n) ==
    IF n = 0 THEN {<<>>}
    ELSE LET shorter == SeqsUpTo(S, n - 1)
         IN  shorter \cup {Append(s, x) : s \in {q \in shorter : Len(q) = n - 1}, x \in S}

Templates == {Flatten(segs) : segs \in SeqsUpTo(TemplatePieces, MaxSegs)}

SnippetMaps == UNION {[D -> SnippetBodies] : D \in SUBSET SnippetNames}

NoError == [kind |-> "none", message |-> <<>>]

\* main's variables before main has done anything
MainIdle ==
    /\ skillDirs = <<>>
    /\ skillIdx = 0
    /\ thrown = NoError
    /\ exitCode = 0

\* the build's variables before the build has done anything
BuildIdle ==
    /\ templates = <<>>
    /\ templateIdx = 0
    /\ templateInfos = <<>>
    /\ mdFiles = <<>>
    /\ mdIdx = 0
    /\ generalFiles = <<>>
    /\ discovered = <<>>
    /\ outFiles = EmptyMap
    /\ warnings = <<>>
    /\ swallowed = {}

NoRun == [status |-> "none", stdout |-> <<>>, stderr |-> <<>>]

NoSummary == [printed |-> FALSE, total |-> 0, passed |-> 0, failed |-> 0]

\* the validators' variables before a validator has done anything
ValidateIdle ==
    /\ files = <<>>
    /\ fileIdx = 0
    /\ allResults = <<>>
    /\ discoveredFiles = <<>>
    /\ lastRun = NoRun
    /\ summary = NoSummary

NoInfo == [name |-> <<>>, description |-> <<>>]

\* the parsers' variables when no parser is called on its own
ParseIdle ==
    /\ regions = <<>>
    /\ parsedContent = <<>>
    /\ parsedInfo = NoInfo

NoExpansion == [threw |-> FALSE, value |-> <<>>, missingSnippets |-> <<>>, message |-> <<>>]

ExpandInit ==
    /\ program = "expand"
    /\ pc = "call"
    /\ template \in Templates
    /\ snippets \in SnippetMaps
    /\ language \in Range(LANGUAGES)
    /\ templatePath = <<SRC_DIR, <<"chroma">>, <<"templates">>, <<"widgets", ".md">>>>
    /\ expansion = NoExpansion
    /\ MainIdle
    /\ BuildIdle
    /\ ValidateIdle
    /\ ParseIdle

Expand ==
    /\ program = "expand"
    /\ pc = "call"
    /\ expansion' = replaceCodePlaceholders(template, snippets, language, templatePath)
    /\ pc' = "returned"
    /\ UNCHANGED <<parseVars, program, template, snippets, language, templatePath>>
    /\ UNCHANGED <<mainVars, buildVars, validateVars>>

ExpandNext == Expand

SpecExpand == ExpandInit /\ [][ExpandNext]_vars

-----------------------------------------------------------------------------
(* parseSnippets and parseFrontmatter called on their own *)

\* regions a snippet file may hold
MaxRegions == 2

\* body lines a region may hold
MaxBodyLines == 2

\* lines a document may hold
MaxDocLines == 4

RegionNames == {<<"a">>, <<"b">>}

\* lines a region's body may hold: a blank line, a line of code, an indented one
BodyLineKinds == {<<>>, <<"const x = 1;">>, <<" ", "return x;">>}

Regions == [name : RegionNames, body : SeqsUpTo(BodyLineKinds, MaxBodyLines)]

\* the comment prefix of a language's snippet files
CommentPrefix(lang) == IF lang = "typescript" THEN "//" ELSE "#"

\* a region as it is written: the start line, the body lines, the end line
RegionText(prefix, r) ==
    <<prefix, " ", "@snippet:">> \o r.name \o <<"\n">>
    \o Flatten([k \in 1..Len(r.body) |-> r.body[k] \o <<"\n">>])
    \o <<prefix, " ", "@end", "\n">>

\* a snippet file: a line outside any region, then the regions
SnippetFileOf(prefix, rs) ==
    <<"import x", "\n">> \o Flatten([k \in 1..Len(rs) |-> RegionText(prefix, rs[k])])

ParseSnippetsInit ==
    /\ program = "parseSnippets"
    /\ pc = "call"
    /\ language \in Range(LANGUAGES)
    /\ regions \in SeqsUpTo(Regions, MaxRegions)
    /\ parsedContent = SnippetFileOf(CommentPrefix(language), regions)
    /\ parsedInfo = NoInfo
    /\ template = <<>>
    /\ snippets = EmptyMap
    /\ templatePath = <<>>
    /\ expansion = NoExpansion
    /\ MainIdle
    /\ BuildIdle
    /\ ValidateIdle

\* loadSnippets: return parseSnippets(content)
ParseSnippetsCall ==
    /\ program = "parseSnippets"
    /\ pc = "call"
    /\ snippets' = parseSnippets(parsedContent)
    /\ pc' = "returned"
    /\ UNCHANGED <<parseVars, program, template, language, templatePath, expansion,
                   mainVars, buildVars, validateVars>>

ParseSnippetsNext == ParseSnippetsCall

SpecParseSnippets == ParseSnippetsInit /\ [][ParseSnippetsNext]_vars

\* lines a document may hold
DocLineKinds ==
    {<<"---">>, <<"name:", " ", "Foo">>, <<"description:", " ", "Bar", " ", "baz">>,
     <<"name:">>, <<"# Title">>}

\* a document: its lines, each ended by "\n"
DocumentOf(ls) == Flatten([k \in 1..Len(ls) |-> ls[k] \o <<"\n">>])

ParseFrontmatterInit ==
    /\ program = "parseFrontmatter"
    /\ pc = "call"
    /\ language = "none"
    /\ regions = <<>>
    /\ parsedContent \in {DocumentOf(ls) : ls \in SeqsUpTo(DocLineKinds, MaxDocLines)}
    /\ parsedInfo = NoInfo
    /\ template = <<>>
    /\ snippets = EmptyMap
    /\ templatePath = <<>>
    /\ expansion = NoExpansion
    /\ MainIdle
    /\ BuildIdle
    /\ ValidateIdle

\* buildSkill: const { name, description } = parseFrontmatter(template)
ParseFrontmatterCall ==
    /\ program = "parseFrontmatter"
    /\ pc = "call"
    /\ parsedInfo' = parseFrontmatter(parsedContent)
    /\ pc' = "returned"
    /\ UNCHANGED <<regions, parsedContent, program, expandVars, mainVars, buildVars,
                   validateVars>>

ParseFrontmatterNext == ParseFrontmatterCall

SpecParseFrontmatter == ParseFrontmatterInit /\ [][ParseFrontmatterNext]_vars

-----------------------------------------------------------------------------
(* File names, generateSkillList *)

\* name.endsWith(ext)
EndsWith(name, ext) == Len(name) >= 1 /\ name[Len(name)] = ext

\* name.replace(pat, by): the first occurrence only
RECURSIVE ReplaceFirst(_, _, _)
ReplaceFirst(name, pat, by) ==
    IF name = <<>> THEN <<>>
    ELSE IF Head(name) = pat THEN by \o Tail(name)
    ELSE <<Head(name)>> \o ReplaceFirst(Tail(name), pat, by)

\* entries.filter(f => f.endsWith(ext))
RECURSIVE FilterByExt(_, _)
FilterByExt(entries, ext) ==
    IF entries = <<>> THEN <<>>
    ELSE (IF EndsWith(Head(entries), ext) THEN <<Head(entries)>> ELSE <<>>)
         \o FilterByExt(Tail(entries), ext)

\* entries.filter(e => e.isDirectory()).map(e => e.name)
RECURSIVE DirectoryNames(_)
DirectoryNames(entries) ==
    IF entries = <<>> THEN <<>>
    ELSE (IF Head(entries).isDirectory THEN <<Head(entries).name>> ELSE <<>>)
         \o DirectoryNames(Tail(entries))

\* language.charAt(0).toUpperCase() + language.slice(1)
LangTitle(lang) == IF lang = "typescript" THEN "Typescript" ELSE "Python"

TopicLine(info, lang) ==
    <<"- [">> \o info.name \o <<"](", "./">> \o info.fileName \o <<"/", lang, ".md", ") - ">>
    \o info.description

GeneralLine(file) ==
    <<"- [">> \o file.name \o <<"](", "./">> \o file.fileName \o <<") - ">>
    \o file.description

\* the lines pushed for one language: the title, one line per template, ""
LanguageLines(lang, infos) ==
    <<(<<"### ", LangTitle(lang), "\n">>)>>
    \o [k \in 1..Len(infos) |-> TopicLine(infos[k], lang)]
    \o <<(<<>>)>>

\* the elements of a list, last first
Reverse(l) == [k \in 1..Len(l) |-> l[Len(l) + 1 - k]]

\* mutant: the entries are listed in another order than the one they came in
generateSkillList_Reordered(skillDir, infos, general) ==
    LET lines ==
            <<(<<"\n", "## Available Topics", "\n">>)>>
            \o LanguageLines(LANGUAGES[1], Reverse(infos))
            \o LanguageLines(LANGUAGES[2], Reverse(infos))
            \o (IF Len(general) > 0
                THEN <<(<<"## General", "\n">>)>>
                     \o [k \in 1..Len(general) |-> GeneralLine(Reverse(general)[k])]
                     \o <<(<<>>)>>
                ELSE <<>>)
    IN  Join(lines, "\n")

generateSkillList(skillDir, infos, general) ==
    LET lines ==
            <<(<<"\n", "## Available Topics", "\n">>)>>
            \o LanguageLines(LANGUAGES[1], infos)
            \o LanguageLines(LANGUAGES[2], infos)
            \o (IF Len(general) > 0
                THEN <<(<<"## General", "\n">>)>>
                     \o [k \in 1..Len(general) |-> GeneralLine(general[k])]
                     \o <<(<<>>)>>
                ELSE <<>>)
    IN  Join(lines, "\n")

-----------------------------------------------------------------------------
(* What the build finds on disk *)

SkillNames == <<(<<"chroma">>), (<<"extra">>), (<<"more">>), (<<"other">>)>>

TemplateNames == <<(<<"b", ".md">>), (<<"a", ".md">>), (<<"c", ".md">>), (<<"d", ".md">>)>>

GeneralNames == <<(<<"faq", ".md">>), (<<"data-model", ".md">>), (<<"notes", ".md">>)>>

\* readdir(SRC_DIR, {withFileTypes}): a plain file, then up to MaxSkills directories
SrcListings ==
    {<<[name |-> <<"README", ".md">>, isDirectory |-> FALSE]>>
        \o [k \in 1..n |-> [name |-> SkillNames[k], isDirectory |-> TRUE]] :
     n \in 0..MaxSkills}

\* readdir(templates/): up to MaxTopics templates (listed b before a: the
\* listing order is not the alphabetical one), then another file
TemplateListings ==
    {SubSeq(TemplateNames, 1, n) \o <<(<<"notes", ".txt">>)>> : n \in 0..MaxTopics}

\* readdir(general/): another file, then up to MaxGeneral documents; or a
\* directory whose only document has the name of the root document
GeneralListings ==
    {<<(<<"logo", ".png">>)>> \o SubSeq(GeneralNames, 1, n) : n \in 0..MaxGeneral}
    \cup {<<(<<"SKILL", ".md">>)>>}

Header(name, description) ==
    <<"---", "\n", "name:", " ">> \o name \o <<"\n", "description:", " ">> \o description
    \o <<"\n", "---", "\n">>

\* contents a template may have: the example without a header, and a
\* document with a header and no placeholder
TemplateContents ==
    {<<"Intro\n">> \o Placeholder(<<"setup">>) \o <<"\nDone">>,
     Header(<<"Widgets">>, <<"About", " ", "widgets">>) \o <<"Intro\n", "\nDone">>}

\* contents a snippet file may have, by comment prefix
SnippetFile(comment) ==
    <<comment, " ", "@snippet:", "setup", "\n", "const x = 1;", "\n", comment, " ", "@end", "\n">>

SnippetFileContents(lang) == {SnippetFile(IF lang = "typescript" THEN "//" ELSE "#")}

GeneralContent == Header(<<"Data", " ", "model">>, <<"Collections">>) \o <<"text">>

SkillMdContent == Header(<<"chroma">>, <<"Build", " ", "with", " ", "Chroma">>) \o <<"# Chroma", "\n">>

-----------------------------------------------------------------------------
(* The build script: main, buildSkill, copyGeneralMarkdownFiles, copySkillMd *)

\* a rejected operation that a catch block absorbs
Rejected(op, path) == [op |-> op, path |-> path]

MaySwallow == Cardinality(swallowed) < MaxSwallowed

FsError(op, path) == [kind |-> "fs", message |-> <<op>> \o Flatten(path)]

skillDir == skillDirs[skillIdx]

templateFile == templates[templateIdx]

topicName == ReplaceFirst(templateFile, ".md", <<>>)

\* loadSnippets: the snippet file of (skill, language, template)
codeFile(dir, lang, templateName) ==
    <<SRC_DIR, dir, <<"code">>, <<lang>>,
      ReplaceFirst(templateName, ".md", <<".", LANG_EXTENSIONS[lang]>>)>>

VariantPath(dir, topic, lang) == <<OUTPUT_DIR, dir, topic, <<lang, ".md">>>>

BuildInit ==
    /\ program = "build"
    /\ pc = "getSkillDirs"
    /\ template = <<>>
    /\ snippets = EmptyMap
    /\ language = "none"
    /\ templatePath = <<>>
    /\ expansion = NoExpansion
    /\ MainIdle
    /\ BuildIdle
    /\ ValidateIdle
    /\ ParseIdle

\* an uncaught rejection: the error reaches main().catch
Throw(err) ==
    /\ thrown' = err
    /\ pc' = "catch"

\* main: const skillDirs = await getSkillDirs()
GetSkillDirs ==
    /\ program = "build"
    /\ pc = "getSkillDirs"
    /\ \/ /\ Throw(FsError("readdir", <<SRC_DIR>>))
          /\ UNCHANGED <<skillDirs, skillIdx>>
       \/ \E entries \in SrcListings :
             /\ skillDirs' = DirectoryNames(entries)
             /\ skillIdx' = 1
             /\ pc' = IF DirectoryNames(entries) = <<>> THEN "done" ELSE "buildSkill"
             /\ UNCHANGED thrown
    /\ UNCHANGED <<parseVars, program, expandVars, exitCode, buildVars, validateVars>>

\* mutant: a rejected readdir of templates/ is thrown to the caller
GetTemplates_ThrowsWhenMissing ==
    /\ program = "build"
    /\ pc = "buildSkill"
    /\ LET templatesDir == <<SRC_DIR, skillDir, <<"templates">>>>
       IN  \/ /\ MaySwallow
              /\ templates' = <<>>
              /\ swallowed' = swallowed \cup {Rejected("readdir", templatesDir)}
              /\ Throw(FsError("readdir", templatesDir))
              /\ UNCHANGED discovered
           \/ \E entries \in TemplateListings :
                 /\ templates' = FilterByExt(entries, ".md")
                 /\ discovered' = Append(discovered, templates')
                 /\ pc' = IF templates' = <<>> THEN "copyGeneral" ELSE "readTemplate"
                 /\ UNCHANGED <<swallowed, thrown>>
    /\ templateIdx' = 1
    /\ templateInfos' = <<>>
    /\ UNCHANGED <<parseVars, program, expandVars, skillDirs, skillIdx, exitCode,
                   mdFiles, mdIdx, generalFiles, outFiles, warnings, validateVars>>

\* buildSkill: const templates = await getTemplates(skillDir)
GetTemplates ==
    /\ program = "build"
    /\ pc = "buildSkill"
    /\ LET templatesDir == <<SRC_DIR, skillDir, <<"templates">>>>
       IN  \/ /\ MaySwallow                      \* readdir rejected
              /\ templates' = <<>>
              /\ swallowed' = swallowed \cup {Rejected("readdir", templatesDir)}
           \/ \E entries \in TemplateListings :
                 /\ templates' = FilterByExt(entries, ".md")
                 /\ UNCHANGED swallowed
    /\ discovered' = Append(discovered, templates')
    /\ pc' = IF templates' = <<>> THEN "copyGeneral" ELSE "readTemplate"
    /\ templateIdx' = 1
    /\ templateInfos' = <<>>
    /\ UNCHANGED <<parseVars, program, expandVars, mainVars, mdFiles, mdIdx, generalFiles,
                   outFiles, warnings, validateVars>>


\* mutant: the language loop starts with the second language
ReadTemplate_PythonFirst ==
    /\ program = "build"
    /\ pc = "readTemplate"
    /\ LET path == <<SRC_DIR, skillDir, <<"templates">>, templateFile>>
       IN  /\ templatePath' = path
           /\ \/ /\ Throw(FsError("readFile", path))
                 /\ UNCHANGED <<template, templateInfos, language>>
              \/ \E content \in TemplateContents :
                    /\ template' = content
                    /\ templateInfos' =
                          Append(templateInfos,
                                 [name |-> parseFrontmatter(content).name,
                                  description |-> parseFrontmatter(content).description,
                                  fileName |-> topicName])
                    /\ language' = LANGUAGES[2]
                    /\ pc' = "loadSnippets"
                    /\ UNCHANGED thrown
    /\ UNCHANGED <<parseVars, program, snippets, expansion, skillDirs, skillIdx, exitCode,
                   templates, templateIdx, mdFiles, mdIdx, generalFiles, discovered,
                   outFiles, warnings, swallowed, validateVars>>

\* mutant: the template is read but its TemplateInfo is not recorded
ReadTemplate_SkipsInfo ==
    /\ program = "build"
    /\ pc = "readTemplate"
    /\ LET path == <<SRC_DIR, skillDir, <<"templates">>, templateFile>>
       IN  /\ templatePath' = path
           /\ \/ /\ Throw(FsError("readFile", path))
                 /\ UNCHANGED <<template, language>>
              \/ \E content \in TemplateContents :
                    /\ template' = content
                    /\ language' = LANGUAGES[1]
                    /\ pc' = "loadSnippets"
                    /\ UNCHANGED thrown
    /\ UNCHANGED <<parseVars, program, snippets, expansion, skillDirs, skillIdx, exitCode,
                   templates, templateIdx, templateInfos, mdFiles, mdIdx, generalFiles,
                   discovered, outFiles, warnings, swallowed, validateVars>>

\* buildSkill: read the template, parse its frontmatter, push its TemplateInfo
ReadTemplate ==
    /\ program = "build"
    /\ pc = "readTemplate"
    /\ LET path == <<SRC_DIR, skillDir, <<"templates">>, templateFile>>
       IN  /\ templatePath' = path
           /\ \/ /\ Throw(FsError("readFile", path))
                 /\ UNCHANGED <<template, templateInfos, language>>
              \/ \E content \in TemplateContents :
                    /\ template' = content
                    /\ templateInfos' =
                          Append(templateInfos,
                                 [name |-> parseFrontmatter(content).name,
                                  description |-> parseFrontmatter(content).description,
                                  fileName |-> topicName])
                    /\ language' = LANGUAGES[1]
                    /\ pc' = "loadSnippets"
                    /\ UNCHANGED thrown
    /\ UNCHANGED <<parseVars, program, snippets, expansion, skillDirs, skillIdx, exitCode,
                   templates, templateIdx, mdFiles, mdIdx, generalFiles, discovered,
                   outFiles, warnings, swallowed, validateVars>>

\* mutant: a missing snippet file is passed over without a warning
LoadSnippets_NoWarning ==
    /\ program = "build"
    /\ pc = "loadSnippets"
    /\ \/ /\ MaySwallow
          /\ swallowed' = swallowed \cup
                 {Rejected("readFile", codeFile(skillDir, language, templateFile))}
          /\ snippets' = EmptyMap
          /\ UNCHANGED warnings
       \/ \E content \in SnippetFileContents(language) :
             /\ snippets' = parseSnippets(content)
             /\ UNCHANGED <<warnings, swallowed>>
    /\ pc' = "expand"
    /\ UNCHANGED <<parseVars, program, template, language, templatePath, expansion, mainVars,
                   templates, templateIdx, templateInfos, mdFiles, mdIdx, generalFiles,
                   discovered, outFiles, validateVars>>

\* loadSnippets: read and parse the snippet file; a failed read is a warning
LoadSnippets ==
    /\ program = "build"
    /\ pc = "loadSnippets"
    /\ \/ /\ MaySwallow                           \* readFile rejected
          /\ warnings' = Append(warnings,
                                [text |-> "Warning: Code file not found: ",
                                 path |-> codeFile(skillDir, language, templateFile)])
          /\ swallowed' = swallowed \cup
                 {Rejected("readFile", codeFile(skillDir, language, templateFile))}
          /\ snippets' = EmptyMap
       \/ \E content \in SnippetFileContents(language) :
             /\ snippets' = parseSnippets(content)
             /\ UNCHANGED <<warnings, swallowed>>
    /\ pc' = "expand"
    /\ UNCHANGED <<parseVars, program, template, language, templatePath, expansion, mainVars,
                   templates, templateIdx, templateInfos, mdFiles, mdIdx, generalFiles,
                   discovered, outFiles, validateVars>>

\* mutant: a failed expansion is fatal to its variant only; the loop goes on
ExpandVariant_SkipsFailedVariant ==
    /\ program = "build"
    /\ pc = "expand"
    /\ LET r == replaceCodePlaceholders(template, snippets, language, templatePath)
       IN  /\ expansion' = r
           /\ IF r.threw
              THEN IF language = LANGUAGES[1]
                   THEN /\ language' = LANGUAGES[2]
                        /\ pc' = "loadSnippets"
                        /\ UNCHANGED templateIdx
                   ELSE /\ language' = "none"
                        /\ templateIdx' = templateIdx + 1
                        /\ pc' = IF templateIdx < Len(templates)
                                 THEN "readTemplate" ELSE "copyGeneral"
              ELSE pc' = "writeVariant" /\ UNCHANGED <<language, templateIdx>>
    /\ UNCHANGED <<parseVars, program, template, snippets, templatePath, mainVars, templates,
                   templateInfos, mdFiles, mdIdx, generalFiles, discovered, outFiles,
                   warnings, swallowed, validateVars>>

\* buildSkill: const output = replaceCodePlaceholders(...)
ExpandVariant ==
    /\ program = "build"
    /\ pc = "expand"
    /\ LET r == replaceCodePlaceholders(template, snippets, language, templatePath)
       IN  /\ expansion' = r
           /\ IF r.threw
              THEN Throw([kind |-> "Error", message |-> r.message])
              ELSE pc' = "writeVariant" /\ UNCHANGED thrown
    /\ UNCHANGED <<parseVars, program, template, snippets, language, templatePath, skillDirs,
                   skillIdx, exitCode, buildVars, validateVars>>

\* mutant: a rejected writeFile is ignored and the loop goes on
WriteVariant_IgnoresWriteFailure ==
    /\ program = "build"
    /\ pc = "writeVariant"
    /\ LET outputDir == <<OUTPUT_DIR, skillDir, topicName>>
           outputPath == VariantPath(skillDir, topicName, language)
       IN  \/ /\ Throw(FsError("mkdir", outputDir))
              /\ UNCHANGED <<outFiles, language, templateIdx, snippets, expansion,
                             template, templatePath>>
           \/ \E stored \in BOOLEAN :
              /\ outFiles' = IF stored THEN MapSet(outFiles, outputPath, expansion.value)
                             ELSE outFiles
              /\ snippets' = EmptyMap
              /\ expansion' = NoExpansion
              /\ IF language = LANGUAGES[1]
                 THEN /\ language' = LANGUAGES[2]
                      /\ pc' = "loadSnippets"
                      /\ UNCHANGED <<templateIdx, template, templatePath>>
                 ELSE /\ language' = "none"
                      /\ templateIdx' = templateIdx + 1
                      /\ template' = <<>>
                      /\ templatePath' = <<>>
                      /\ pc' = IF templateIdx < Len(templates)
                               THEN "readTemplate" ELSE "copyGeneral"
              /\ UNCHANGED thrown
    /\ UNCHANGED <<parseVars, program, skillDirs, skillIdx, exitCode, templates, templateInfos,
                   mdFiles, mdIdx, generalFiles, discovered, warnings, swallowed,
                   validateVars>>

\* buildSkill: mkdir, writeFile, then the next language, template or step
WriteVariant ==
    /\ program = "build"
    /\ pc = "writeVariant"
    /\ LET outputDir == <<OUTPUT_DIR, skillDir, topicName>>
           outputPath == VariantPath(skillDir, topicName, language)
       IN  \/ /\ Throw(FsError("mkdir", outputDir))
              /\ UNCHANGED <<outFiles, language, templateIdx, snippets, expansion,
                             template, templatePath>>
           \/ /\ Throw(FsError("writeFile", outputPath))
              /\ UNCHANGED <<outFiles, language, templateIdx, snippets, expansion,
                             template, templatePath>>
           \/ /\ outFiles' = MapSet(outFiles, outputPath, expansion.value)
              /\ snippets' = EmptyMap
              /\ expansion' = NoExpansion
              /\ IF language = LANGUAGES[1]
                 THEN /\ language' = LANGUAGES[2]
                      /\ pc' = "loadSnippets"
                      /\ UNCHANGED <<templateIdx, template, templatePath>>
                 ELSE /\ language' = "none"
                      /\ templateIdx' = templateIdx + 1
                      /\ template' = <<>>
                      /\ templatePath' = <<>>
                      /\ pc' = IF templateIdx < Len(templates)
                               THEN "readTemplate" ELSE "copyGeneral"
              /\ UNCHANGED thrown
    /\ UNCHANGED <<parseVars, program, skillDirs, skillIdx, exitCode, templates, templateInfos,
                   mdFiles, mdIdx, generalFiles, discovered, warnings, swallowed,
                   validateVars>>

\* copyGeneralMarkdownFiles: readdir and mkdir; a failure ends the function
CopyGeneralList ==
    /\ program = "build"
    /\ pc = "copyGeneral"
    /\ LET generalDir == <<SRC_DIR, skillDir, <<"general">>>>
           outputDir == <<OUTPUT_DIR, skillDir>>
       IN  \/ /\ MaySwallow                      \* readdir rejected
              /\ mdFiles' = <<>>
              /\ swallowed' = swallowed \cup {Rejected("readdir", generalDir)}
              /\ pc' = "copySkillMd"
           \/ \E entries \in GeneralListings :
                 /\ mdFiles' = FilterByExt(entries, ".md")
                 /\ \/ /\ MaySwallow             \* mkdir rejected
                       /\ swallowed' = swallowed \cup {Rejected("mkdir", outputDir)}
                       /\ pc' = "copySkillMd"
                    \/ /\ pc' = IF FilterByExt(entries, ".md") = <<>>
                                THEN "copySkillMd" ELSE "copyGeneralFile"
                       /\ UNCHANGED swallowed
    /\ mdIdx' = 1
    /\ UNCHANGED <<parseVars, program, expandVars, mainVars, templates, templateIdx,
                   templateInfos, generalFiles, discovered, outFiles, warnings,
                   validateVars>>

\* copyGeneralMarkdownFiles: one turn of the copy loop
CopyGeneralFile ==
    /\ program = "build"
    /\ pc = "copyGeneralFile"
    /\ LET mdFile == mdFiles[mdIdx]
           srcPath == <<SRC_DIR, skillDir, <<"general">>, mdFile>>
           destPath == <<OUTPUT_DIR, skillDir, mdFile>>
           info == [name |-> parseFrontmatter(GeneralContent).name,
                    description |-> parseFrontmatter(GeneralContent).description,
                    fileName |-> mdFile]
       IN  \/ /\ MaySwallow                      \* readFile rejected
              /\ swallowed' = swallowed \cup {Rejected("readFile", srcPath)}
              /\ pc' = "copySkillMd"
              /\ UNCHANGED <<generalFiles, outFiles, mdIdx>>
           \/ /\ MaySwallow                      \* copyFile rejected
              /\ generalFiles' = Append(generalFiles, info)
              /\ swallowed' = swallowed \cup {Rejected("copyFile", destPath)}
              /\ pc' = "copySkillMd"
              /\ UNCHANGED <<outFiles, mdIdx>>
           \/ /\ generalFiles' = Append(generalFiles, info)
              /\ outFiles' = MapSet(outFiles, destPath, GeneralContent)
              /\ mdIdx' = mdIdx + 1
              /\ pc' = IF mdIdx < Len(mdFiles) THEN "copyGeneralFile" ELSE "copySkillMd"
              /\ UNCHANGED swallowed
    /\ UNCHANGED <<parseVars, program, expandVars, mainVars, templates, templateIdx,
                   templateInfos, mdFiles, discovered, warnings, validateVars>>

SkillMdPath(dir) == <<OUTPUT_DIR, dir, <<"SKILL", ".md">>>>

SkillMdWarning(dir) == [text |-> "Warning: SKILL.md not found for ", path |-> <<dir>>]


\* mutant: a failure in copySkillMd reaches main().catch
CopySkillMd_AbortsWhenMissing ==
    /\ program = "build"
    /\ pc = "copySkillMd"
    /\ \/ /\ Throw(FsError("readFile", <<SRC_DIR, skillDir, <<"SKILL", ".md">>>>))
          /\ swallowed' = swallowed \cup
                {Rejected("readFile", <<SRC_DIR, skillDir, <<"SKILL", ".md">>>>)}
          /\ warnings' = Append(warnings, SkillMdWarning(skillDir))
          /\ UNCHANGED <<outFiles, skillIdx, templates, templateIdx, templateInfos,
                         mdFiles, mdIdx, generalFiles>>
       \/ /\ outFiles' = MapSet(outFiles, SkillMdPath(skillDir),
                                SkillMdContent
                                \o generateSkillList(skillDir, templateInfos, generalFiles))
          /\ skillIdx' = skillIdx + 1
          /\ pc' = IF skillIdx < Len(skillDirs) THEN "buildSkill" ELSE "done"
          /\ templates' = <<>>
          /\ templateIdx' = 0
          /\ templateInfos' = <<>>
          /\ mdFiles' = <<>>
          /\ mdIdx' = 0
          /\ generalFiles' = <<>>
          /\ UNCHANGED <<warnings, swallowed, thrown>>
    /\ UNCHANGED <<parseVars, program, expandVars, skillDirs, exitCode, discovered,
                   validateVars>>

\* copySkillMd, then the next turn of the skill loop of main
CopySkillMd ==
    /\ program = "build"
    /\ pc = "copySkillMd"
    /\ \/ \E failed \in {Rejected("readFile", <<SRC_DIR, skillDir, <<"SKILL", ".md">>>>),
                         Rejected("mkdir", <<OUTPUT_DIR, skillDir>>),
                         Rejected("writeFile", SkillMdPath(skillDir))} :
             /\ MaySwallow
             /\ swallowed' = swallowed \cup {failed}
             /\ warnings' = Append(warnings, SkillMdWarning(skillDir))
             /\ UNCHANGED outFiles
       \/ /\ outFiles' = MapSet(outFiles, SkillMdPath(skillDir),
                                SkillMdContent
                                \o generateSkillList(skillDir, templateInfos, generalFiles))
          /\ UNCHANGED <<warnings, swallowed>>
    /\ skillIdx' = skillIdx + 1
    /\ pc' = IF skillIdx < Len(skillDirs) THEN "buildSkill" ELSE "done"
    /\ templates' = <<>>                         \* the turn's locals end here
    /\ templateIdx' = 0
    /\ templateInfos' = <<>>
    /\ mdFiles' = <<>>
    /\ mdIdx' = 0
    /\ generalFiles' = <<>>
    /\ UNCHANGED <<parseVars, program, expandVars, skillDirs, thrown, exitCode, discovered,
                   validateVars>>

\* main returns after "Done!": the process ends with exit code 0
MainDone ==
    /\ program = "build"
    /\ pc = "done"
    /\ pc' = "exited"
    /\ UNCHANGED <<parseVars, program, expandVars, mainVars, buildVars, validateVars>>

\* mutant: the rejection handler removes what the run wrote
MainCatch_RollsBack ==
    /\ program = "build"
    /\ pc = "catch"
    /\ exitCode' = 1
    /\ pc' = "exited"
    /\ outFiles' = EmptyMap
    /\ UNCHANGED <<parseVars, program, expandVars, skillDirs, skillIdx, thrown,
                   templates, templateIdx, templateInfos, mdFiles, mdIdx, generalFiles,
                   discovered, warnings, swallowed, validateVars>>

\* main().catch: console.error(err); process.exit(1)
MainCatch ==
    /\ program = "build"
    /\ pc = "catch"
    /\ exitCode' = 1
    /\ pc' = "exited"
    /\ UNCHANGED <<parseVars, program, expandVars, skillDirs, skillIdx, thrown, buildVars,
                   validateVars>>

BuildNext ==
    \/ GetSkillDirs
    \/ GetTemplates
    \/ ReadTemplate
    \/ LoadSnippets
    \/ ExpandVariant
    \/ WriteVariant
    \/ CopyGeneralList
    \/ CopyGeneralFile
    \/ CopySkillMd
    \/ MainDone
    \/ MainCatch

SpecBuild == BuildInit /\ [][BuildNext]_vars

\* the process ends once main's promise settles: the rejection handler and
\* the return from main are always taken when they are the step left
SpecBuildFair == SpecBuild /\ WF_vars(MainCatch) /\ WF_vars(MainDone)

-----------------------------------------------------------------------------
(* The validators: validate-typescript and validate-python *)

Validators == {"validate-typescript", "validate-python"}

\* the language whose examples the running validator checks
ValidatorLanguage == IF program = "validate-typescript" THEN "typescript" ELSE "python"

\* the literal of entries.filter(f => f.endsWith(...))
ExampleExtension(lang) == IF lang = "typescript" THEN ".ts" ELSE ".py"

\* join(SRC_DIR, skillDir, "code", language)
codeDir(dir, lang) == <<SRC_DIR, dir, <<"code">>, <<lang>>>>

\* a path as the text a tool prints: the names with "/" between them
PathText(path) == Join(path, "/")

\* the lines of a text: the stretches between "\n"
RECURSIVE Lines(_)
Lines(t) ==
    LET e == LineEnd(t, 1)
    IN  IF e > Len(t) THEN <<t>>
        ELSE <<SubSeq(t, 1, e - 1)>> \o Lines(SubSeq(t, e + 1, Len(t)))

\* tokens of the checker's output: "(line,col)" and ": error TSnnnn:"
Loc == "(3,5)"

ErrTag == ": error TS2322:"

\* tokens that hold whitespace (anything else is \S throughout)
HasSpace(c) ==
    \/ IsSpace(c)
    \/ c \in {ErrTag, " Cannot find name 'x'.", " Duplicate identifier.",
              " Type 'string' is not assignable to type 'number'.",
              "Types of property 'a' are incompatible.",
              "sh: 1: npx: not found", "Unknown error",
              "File \"setup.py\", line 1", "SyntaxError: invalid syntax",
              "Compiling setup.py ..."}

\* \.\w+ : a dot and word characters
IsExtension(c) == c \in {".ts", ".d", ".py", ".md"}

\* /^\S+\.\w+\(\d+,\d+\): error TS\d+:/ at the start of a line
HeaderLine(line) ==
    \E k \in 2..(Len(line) - 2) :
        /\ \A i \in 1..k : ~HasSpace(line[i])
        /\ IsExtension(line[k])
        /\ line[k + 1] = Loc
        /\ line[k + 2] = ErrTag

\* errorBlock.startsWith("node_modules/")
StartsWithNodeModules(block) ==
    Len(block) >= 2 /\ block[1] = "node_modules" /\ block[2] = "/"

\* the while loop over errorPattern.exec: with the m flag the lazy group
\* stops at the first end of line, so a block is the header line, trimmed;
\* blocks that start with node_modules/ are not pushed
RECURSIVE ErrorBlocks_KeepsDependencyErrors(_)
ErrorBlocks_KeepsDependencyErrors(lines) ==
    IF lines = <<>> THEN <<>>
    ELSE (IF HeaderLine(Head(lines))
          THEN <<Trim(Head(lines))>>
          ELSE <<>>)
         \o ErrorBlocks_KeepsDependencyErrors(Tail(lines))

RECURSIVE ErrorBlocks(_)
ErrorBlocks(lines) ==
    IF lines = <<>> THEN <<>>
    ELSE (IF HeaderLine(Head(lines)) /\ ~StartsWithNodeModules(Trim(Head(lines)))
          THEN <<Trim(Head(lines))>>
          ELSE <<>>)
         \o ErrorBlocks(Tail(lines))

\* a successful result carries no errors field
Valid(filePath) == [file |-> filePath, success |-> TRUE, errors |-> <<>>]

\* mutant: a failed check without a diagnostic block is a failure
validateFile_typescript_FailsWithoutBlock(filePath, run) ==
    IF run.status = "ok" THEN Valid(filePath)
    ELSE LET errorOutput == IF run.stdout # <<>> THEN run.stdout
                            ELSE IF run.stderr # <<>> THEN run.stderr
                            ELSE <<"Unknown error">>
             errors == ErrorBlocks(Lines(errorOutput))
         IN  IF Len(errors) > 0
             THEN [file |-> filePath, success |-> FALSE, errors |-> Join(errors, "\n\n")]
             ELSE [file |-> filePath, success |-> FALSE, errors |-> Trim(errorOutput)]

\* TypeScript validateFile, given what execSync did
validateFile_typescript(filePath, run) ==
    IF run.status = "ok" THEN Valid(filePath)
    ELSE LET errorOutput == IF run.stdout # <<>> THEN run.stdout
                            ELSE IF run.stderr # <<>> THEN run.stderr
                            ELSE <<"Unknown error">>
             errors == ErrorBlocks(Lines(errorOutput))
         IN  IF Len(errors) > 0
             THEN [file |-> filePath, success |-> FALSE, errors |-> Join(errors, "\n\n")]
             ELSE Valid(filePath)

\* Python validateFile, given what execSync did
validateFile_python(filePath, run) ==
    IF run.status = "ok" THEN Valid(filePath)
    ELSE LET errorOutput == IF run.stderr # <<>> THEN run.stderr
                            ELSE IF run.stdout # <<>> THEN run.stdout
                            ELSE <<"Unknown error">>
         IN  [file |-> filePath, success |-> FALSE, errors |-> Trim(errorOutput)]

validateFile(lang, filePath, run) ==
    IF lang = "typescript" THEN validateFile_typescript(filePath, run)
    ELSE validateFile_python(filePath, run)

(* What the validators find on disk and get from the external checkers *)

\* lines a validated file's check may print
MaxLines == 3

\* lines a check may print within a whole run of a validator
MaxRunLines == 1

\* example files a skill may hold per language
MaxFiles == 2

ExampleNames == <<"setup", "query", "embed", "admin">>

\* readdir(codeDir): a file of another kind, then up to MaxFiles examples
CodeListings(lang) ==
    {<<(<<"README", ".md">>)>>
        \o [k \in 1..n |-> <<ExampleNames[k], ExampleExtension(lang)>>] :
     n \in 0..MaxFiles}

\* a module of the repository that an example imports
HelperPath == <<SRC_DIR, <<"lib">>, <<"helper", ".ts">>>>

\* lines tsc may print for filePath: a diagnostic about it, one about a
\* dependency, one about an imported module, and a continuation line
TscLines(filePath) ==
    {PathText(filePath) \o <<Loc, ErrTag, " Cannot find name 'x'.">>,
     <<"node_modules", "/", "pkg", "/", "index", ".d", ".ts", Loc, ErrTag,
       " Duplicate identifier.">>,
     PathText(HelperPath) \o <<Loc, ErrTag,
       " Type 'string' is not assignable to type 'number'.", " ">>,
     <<" ", " ", "Types of property 'a' are incompatible.">>}

TscOutputs(filePath, n) ==
    {Flatten([k \in 1..Len(ls) |-> ls[k] \o <<"\n">>]) : ls \in SeqsUpTo(TscLines(filePath), n)}

PySyntaxError ==
    <<" ", " ", "File \"setup.py\", line 1", "\n", "SyntaxError: invalid syntax", "\n">>

\* outcomes of execSync: exit code 0, or an error carrying stdout and stderr
Runs(lang, filePath, n) ==
    {[status |-> "ok", stdout |-> <<>>, stderr |-> <<>>]}
    \cup
    (IF lang = "typescript"
     THEN {[status |-> "failed", stdout |-> o, stderr |-> e] :
              o \in TscOutputs(filePath, n),
              e \in {<<>>, <<"sh: 1: npx: not found", "\n">>}}
     ELSE {[status |-> "failed", stdout |-> o, stderr |-> e] :
              o \in {<<>>, <<"Compiling setup.py ...", "\n">>},
              e \in {<<>>, PySyntaxError}})

(* validateFile on its own *)

ValidateFileInit ==
    /\ program = "validateFile"
    /\ pc = "call"
    /\ language \in Range(LANGUAGES)
    /\ template = <<>>
    /\ snippets = EmptyMap
    /\ templatePath = <<>>
    /\ expansion = NoExpansion
    /\ MainIdle
    /\ BuildIdle
    /\ files = <<codeDir(<<"chroma">>, language)
                   \o <<(<<ExampleNames[1], ExampleExtension(language)>>)>>>>
    /\ fileIdx = 1
    /\ allResults = <<>>
    /\ discoveredFiles = files
    /\ lastRun \in Runs(language, files[1], MaxLines)
    /\ summary = NoSummary
    /\ ParseIdle

ValidateFileCall ==
    /\ program = "validateFile"
    /\ pc = "call"
    /\ allResults' = <<validateFile(language, files[fileIdx], lastRun)>>
    /\ pc' = "returned"
    /\ UNCHANGED <<parseVars, program, expandVars, mainVars, buildVars, files, fileIdx,
                   discoveredFiles, lastRun, summary>>

ValidateFileNext == ValidateFileCall

SpecValidateFile == ValidateFileInit /\ [][ValidateFileNext]_vars

(* main of the validators *)

ValidateInit ==
    /\ program \in Validators
    /\ pc = "getSkillDirs"
    /\ template = <<>>
    /\ snippets = EmptyMap
    /\ language = "none"
    /\ templatePath = <<>>
    /\ expansion = NoExpansion
    /\ MainIdle
    /\ BuildIdle
    /\ ValidateIdle
    /\ ParseIdle

\* the loop over skillDirs and files: where main goes after the file at
\* index k of the skill at index s, given that skill's files
AfterFile(s, k, fs) ==
    IF k < Len(fs) THEN "validateFile"
    ELSE IF s < Len(skillDirs) THEN "getFiles"
    ELSE "summary"

\* main: const skillDirs = await getSkillDirs()
ValidatorGetSkillDirs ==
    /\ program \in Validators
    /\ pc = "getSkillDirs"
    /\ \/ /\ Throw(FsError("readdir", <<SRC_DIR>>))
          /\ UNCHANGED <<skillDirs, skillIdx>>
       \/ \E entries \in SrcListings :
             /\ skillDirs' = DirectoryNames(entries)
             /\ skillIdx' = 1
             /\ pc' = IF DirectoryNames(entries) = <<>> THEN "summary" ELSE "getFiles"
             /\ UNCHANGED thrown
    /\ UNCHANGED <<parseVars, program, expandVars, exitCode, buildVars, validateVars>>

\* getTypeScriptFiles, getPythonFiles: a rejected readdir gives no files
GetExampleFiles ==
    /\ program \in Validators
    /\ pc = "getFiles"
    /\ \E found \in {<<>>} \cup
            {LET names == FilterByExt(entries, ExampleExtension(ValidatorLanguage))
             IN  [k \in 1..Len(names) |->
                     codeDir(skillDir, ValidatorLanguage) \o <<names[k]>>] :
             entries \in CodeListings(ValidatorLanguage)} :
          /\ \/ /\ found = <<>>                \* readdir rejected
                /\ swallowed' = swallowed \cup
                       {Rejected("readdir", codeDir(skillDir, ValidatorLanguage))}
             \/ UNCHANGED swallowed
          /\ files' = found
          /\ fileIdx' = 1
          /\ discoveredFiles' = discoveredFiles \o found
          /\ IF found = <<>>
             THEN IF skillIdx < Len(skillDirs)
                  THEN skillIdx' = skillIdx + 1 /\ pc' = "getFiles"
                  ELSE pc' = "summary" /\ UNCHANGED skillIdx
             ELSE pc' = "validateFile" /\ UNCHANGED skillIdx
    /\ UNCHANGED <<parseVars, program, expandVars, skillDirs, thrown, exitCode,
                   templates, templateIdx, templateInfos, mdFiles, mdIdx,
                   generalFiles, discovered, outFiles, warnings,
                   allResults, lastRun, summary>>

\* where py_compile stores the bytecode of the example at filePath
CachePath(filePath) ==
    SubSeq(filePath, 1, 4) \o <<(<<"__pycache__">>), <<filePath[5][1], ".cpython", ".pyc">>>>

\* mutant: a failing check of a file aborts the run
CheckFile_AbortsOnFailure ==
    /\ program \in Validators
    /\ pc = "validateFile"
    /\ \E run \in Runs(ValidatorLanguage, files[fileIdx], MaxRunLines) :
          /\ lastRun' = run
          /\ IF run.status = "failed"
             THEN /\ Throw([kind |-> "Error", message |-> run.stderr])
                  /\ UNCHANGED <<allResults, fileIdx, skillIdx>>
             ELSE /\ allResults' = Append(allResults,
                        validateFile(ValidatorLanguage, files[fileIdx], run))
                  /\ pc' = AfterFile(skillIdx, fileIdx, files)
                  /\ fileIdx' = IF fileIdx < Len(files) THEN fileIdx + 1 ELSE fileIdx
                  /\ skillIdx' = IF fileIdx < Len(files) \/ skillIdx >= Len(skillDirs)
                                 THEN skillIdx ELSE skillIdx + 1
                  /\ UNCHANGED thrown
    /\ UNCHANGED <<parseVars, program, expandVars, skillDirs, exitCode, buildVars, files,
                   discoveredFiles, summary>>

\* main: const result = validateFile(file); allResults.push(result).
\* python -m py_compile stores the bytecode of a file that compiles in
\* __pycache__ next to it, unless the interpreter is set up to keep its
\* cache elsewhere; tsc --noEmit writes nothing
CheckFile ==
    /\ program \in Validators
    /\ pc = "validateFile"
    /\ \E run \in Runs(ValidatorLanguage, files[fileIdx], MaxRunLines) :
          /\ lastRun' = run
          /\ allResults' = Append(allResults,
                validateFile(ValidatorLanguage, files[fileIdx], run))
          /\ IF ValidatorLanguage = "python" /\ run.status = "ok"
             THEN \/ outFiles' = MapSet(outFiles, CachePath(files[fileIdx]), <<"bytecode">>)
                  \/ UNCHANGED outFiles
             ELSE UNCHANGED outFiles
    /\ pc' = AfterFile(skillIdx, fileIdx, files)
    /\ fileIdx' = IF fileIdx < Len(files) THEN fileIdx + 1 ELSE fileIdx
    /\ skillIdx' = IF fileIdx < Len(files) \/ skillIdx >= Len(skillDirs)
                   THEN skillIdx ELSE skillIdx + 1
    /\ UNCHANGED <<parseVars, program, expandVars, skillDirs, thrown, exitCode,
                   templates, templateIdx, templateInfos, mdFiles, mdIdx, generalFiles,
                   discovered, warnings, swallowed, files, discoveredFiles, summary>>

\* allResults.filter(r => !r.success)
Failed(results) == SelectSeq(results, LAMBDA r : ~r.success)

\* mutant: Total files counts the files of the last skill only
Summary_TotalOfLastSkill ==
    /\ program \in Validators
    /\ pc = "summary"
    /\ summary' = [printed |-> TRUE,
                   total |-> Len(files),
                   passed |-> Len(files) - Len(Failed(allResults)),
                   failed |-> Len(Failed(allResults))]
    /\ exitCode' = IF Len(Failed(allResults)) > 0 THEN 1 ELSE exitCode
    /\ pc' = "exited"
    /\ UNCHANGED <<parseVars, program, expandVars, skillDirs, skillIdx, thrown, buildVars,
                   files, fileIdx, allResults, discoveredFiles, lastRun>>

\* mutant: the summary is printed and the process ends with exit code 0
Summary_NeverFails ==
    /\ program \in Validators
    /\ pc = "summary"
    /\ summary' = [printed |-> TRUE,
                   total |-> Len(allResults),
                   passed |-> Len(allResults) - Len(Failed(allResults)),
                   failed |-> Len(Failed(allResults))]
    /\ UNCHANGED exitCode
    /\ pc' = "exited"
    /\ UNCHANGED <<parseVars, program, expandVars, skillDirs, skillIdx, thrown, buildVars,
                   files, fileIdx, allResults, discoveredFiles, lastRun>>

\* main: the summary, then process.exit(1) when a file failed
Summary ==
    /\ program \in Validators
    /\ pc = "summary"
    /\ summary' = [printed |-> TRUE,
                   total |-> Len(allResults),
                   passed |-> Len(allResults) - Len(Failed(allResults)),
                   failed |-> Len(Failed(allResults))]
    /\ exitCode' = IF Len(Failed(allResults)) > 0 THEN 1 ELSE exitCode
    /\ pc' = "exited"
    /\ UNCHANGED <<parseVars, program, expandVars, skillDirs, skillIdx, thrown, buildVars,
                   files, fileIdx, allResults, discoveredFiles, lastRun>>

\* main().catch: console.error(err); process.exit(1)
ValidatorCatch ==
    /\ program \in Validators
    /\ pc = "catch"
    /\ exitCode' = 1
    /\ pc' = "exited"
    /\ UNCHANGED <<parseVars, program, expandVars, skillDirs, skillIdx, thrown, buildVars,
                   validateVars>>

ValidateNext ==
    \/ ValidatorGetSkillDirs
    \/ GetExampleFiles
    \/ CheckFile
    \/ Summary
    \/ ValidatorCatch

SpecValidate == ValidateInit /\ [][ValidateNext]_vars

\* the commands of the repository, each started on its own: the build
\* (bun run build) and the two validators (npm run validate:<language>)
ToolsInit == BuildInit \/ ValidateInit

ToolsNext == BuildNext \/ ValidateNext

SpecTools == ToolsInit /\ [][ToolsNext]_vars

-----------------------------------------------------------------------------
(* Properties of replaceCodePlaceholders, checked under SpecExpand *)

\* the names of the placeholders of the template, in order of occurrence
PlaceholderNames(t) ==
    LET ms == PlaceholderMatches(t, 1) IN [k \in 1..Len(ms) |-> ms[k].name]

\* the placeholder was resolved: the lookup gave a body that replaced it
Resolved(n) == n \in DOMAIN snippets /\ snippets[n] # <<>>

\* C1: when at least one placeholder names a snippet absent from the mapping,
\* the expansion fails with one aggregate error; its list of missing names
\* holds every unresolved placeholder name and no resolved name, and its
\* message carries the language, the template path and the joined list.
C1_AggregateMissingError ==
    (pc = "returned"
        /\ \E n \in Range(PlaceholderNames(template)) : n \notin DOMAIN snippets)
    => /\ expansion.threw
       /\ \A n \in Range(PlaceholderNames(template)) :
              ~Resolved(n) => n \in Range(expansion.missingSnippets)
       /\ \A n \in Range(expansion.missingSnippets) :
              n \in Range(PlaceholderNames(template)) /\ ~Resolved(n)
       /\ expansion.message =
              <<"Missing snippets for ", language, " in ", templatePath, ": ">>
              \o Join(expansion.missingSnippets, ", ")

\* C1 witness: placeholders setup and b, only setup defined: the error names b
C1_Witness ==
    /\ pc = "returned"
    /\ template = Placeholder(<<"setup">>) \o Placeholder(<<"b">>)
    /\ snippets = (<<"setup">> :> <<"const x = 1;">>)
    /\ expansion.threw
    /\ expansion.missingSnippets = <<(<<"b">>)>>

\* the template with every placeholder replaced by its fenced snippet body
RECURSIVE FencedFrom(_, _, _)
FencedFrom(t, i, ms) ==
    IF ms = <<>> THEN SubSeq(t, i, Len(t))
    ELSE SubSeq(t, i, Head(ms).from - 1)
         \o <<Backticks, language, "\n">> \o snippets[Head(ms).name] \o <<"\n", Backticks>>
         \o FencedFrom(t, Head(ms).to + 1, Tail(ms))

\* C9: every placeholder whose name is in the mapping is replaced by the
\* fence (three backticks, language tag, newline, body, newline, three
\* backticks) and the text outside the placeholders is unchanged.
C9_MappedPlaceholdersFenced ==
    (pc = "returned"
        /\ \A n \in Range(PlaceholderNames(template)) : n \in DOMAIN snippets)
    => /\ ~expansion.threw
       /\ expansion.value = FencedFrom(template, 1, PlaceholderMatches(template, 1))

\* the same for placeholders whose snippet body is not empty
C9_NonEmptyBodiesFenced ==
    (pc = "returned" /\ \A n \in Range(PlaceholderNames(template)) : Resolved(n))
    => /\ ~expansion.threw
       /\ expansion.value = FencedFrom(template, 1, PlaceholderMatches(template, 1))

\* C10: a template without placeholders expands, for any mapping and either
\* language, to itself.
C10_NoPlaceholdersUnchanged ==
    (pc = "returned" /\ PlaceholderMatches(template, 1) = <<>>)
    => ~expansion.threw /\ expansion.value = template

\* C10 witness: text with a stray brace, empty mapping, returned unchanged
C10_Witness ==
    /\ pc = "returned"
    /\ template = <<"Intro\n", "{", "\nDone">>
    /\ DOMAIN snippets = {}
    /\ ~expansion.threw
    /\ expansion.value = template

-----------------------------------------------------------------------------
(* Properties of the build, checked under SpecBuild and SpecBuildFair *)

TopicOf(s, t) == ReplaceFirst(discovered[s][t], ".md", <<>>)

Written(path) == path \in DOMAIN outFiles

\* the read of the Python snippet file of topic t of skill s was rejected
PythonFileAbsent(s, t) ==
    Rejected("readFile", codeFile(skillDirs[s], "python", discovered[s][t])) \in swallowed

CodeFileWarnings(path) ==
    {k \in 1..Len(warnings) :
        warnings[k] = [text |-> "Warning: Code file not found: ", path |-> path]}

\* the build is working on topic t of skill s
AtTopic(s, t) == skillIdx = s /\ templateIdx = t /\ templates # <<>>

\* the build has left topic t of skill s behind
PastTopic(s, t) == skillIdx > s \/ (skillIdx = s /\ templateIdx > t)

AllVariantsWritten ==
    /\ Len(discovered) = Len(skillDirs)
    /\ \A s \in 1..Len(discovered) : \A t \in 1..Len(discovered[s]) :
          \A l \in Range(LANGUAGES) : Written(VariantPath(skillDirs[s], TopicOf(s, t), l))

\* C2 as stated: a topic whose Python snippet file is absent, whatever its
\* template holds, has its TypeScript variant written and one warning logged,
\* and its expansion never aborts the build.
C2_AbsentPythonNeverAborts ==
    \A s \in 1..Len(discovered) : \A t \in 1..Len(discovered[s]) :
        PythonFileAbsent(s, t) =>
            /\ Written(VariantPath(skillDirs[s], TopicOf(s, t), "typescript"))
            /\ Cardinality(CodeFileWarnings(codeFile(skillDirs[s], "python", discovered[s][t]))) = 1
            /\ ~(AtTopic(s, t) /\ thrown.kind = "Error")

\* C2 amended: for a topic whose Python snippet file is absent the TypeScript
\* variant is written and exactly one warning is logged for the missing file;
\* the Python expansion then runs on the empty mapping: when the template has
\* no placeholder the Python variant is written with the template text and
\* the build goes on (a run ending with exit code 0 has built every topic of
\* every skill), when it has a placeholder the expansion throws and the run
\* ends with exit code 1.
C2_AbsentPythonFile ==
    \A s \in 1..Len(discovered) : \A t \in 1..Len(discovered[s]) :
        PythonFileAbsent(s, t) =>
            LET ts == VariantPath(skillDirs[s], TopicOf(s, t), "typescript")
                py == VariantPath(skillDirs[s], TopicOf(s, t), "python")
            IN  /\ Written(ts)
                /\ Cardinality(CodeFileWarnings(codeFile(skillDirs[s], "python", discovered[s][t]))) = 1
                /\ (AtTopic(s, t) /\ pc = "writeVariant") =>
                      /\ PlaceholderMatches(template, 1) = <<>>
                      /\ expansion.value = template
                /\ (AtTopic(s, t) /\ pc \in {"catch", "exited"} /\ thrown.kind = "Error") =>
                      /\ PlaceholderMatches(template, 1) # <<>>
                      /\ pc = "exited" => exitCode = 1
                /\ (AtTopic(s, t) /\ pc \in {"writeVariant", "catch", "exited"}) =>
                      (PlaceholderMatches(template, 1) = <<>> <=> thrown.kind # "Error")
                /\ PastTopic(s, t) =>
                      /\ Written(py)
                      /\ outFiles[py] = outFiles[ts]
                      /\ PlaceholderMatches(outFiles[py], 1) = <<>>
                /\ (pc = "exited" /\ exitCode = 0) => AllVariantsWritten

\* C2 witness: the first topic had no Python snippet file; the run built a
\* later topic and a later skill and ended with exit code 0
C2_Witness ==
    /\ pc = "exited"
    /\ exitCode = 0
    /\ Len(skillDirs) = 2
    /\ Len(discovered) = 2
    /\ Len(discovered[1]) = 2
    /\ Len(discovered[2]) = 1
    /\ PythonFileAbsent(1, 1)
    /\ AllVariantsWritten

\* the root document of skill s was written: the source content, then the index
RootWritten(s) ==
    /\ Written(SkillMdPath(skillDirs[s]))
    /\ LET out == outFiles[SkillMdPath(skillDirs[s])]
       IN  /\ Len(out) > Len(SkillMdContent)
           /\ SubSeq(out, 1, Len(SkillMdContent)) = SkillMdContent
           /\ SubSeq(out, Len(SkillMdContent) + 1, Len(SkillMdContent) + 3)
                 = <<"\n", "## Available Topics", "\n">>

\* C3 as stated: a run ends with an error and a non-zero exit code, or with
\* exit code 0, every variant written and every skill's root document written.
C3_ExitZeroMeansEverythingWritten ==
    pc = "exited" =>
        \/ exitCode # 0 /\ thrown # NoError
        \/ /\ exitCode = 0
           /\ thrown = NoError
           /\ AllVariantsWritten
           /\ \A s \in 1..Len(skillDirs) : RootWritten(s)

\* C3 amended: a run ends with an error and exit code 1, or with exit code 0
\* and then every discovered topic of every skill has both variants written
\* and every skill has its root document with the index written or a
\* "SKILL.md not found" warning logged for it.
C3_ExitZeroOrError ==
    pc = "exited" =>
        \/ exitCode = 1 /\ thrown # NoError
        \/ /\ exitCode = 0
           /\ thrown = NoError
           /\ AllVariantsWritten
           /\ \A s \in 1..Len(skillDirs) :
                 \/ RootWritten(s)
                 \/ SkillMdWarning(skillDirs[s]) \in Range(warnings)

\* C3 witness: exit code 0, two skills with topics, the first without a root
\* document (warned), the second with one
C3_Witness ==
    /\ pc = "exited"
    /\ exitCode = 0
    /\ Len(skillDirs) = 2
    /\ AllVariantsWritten
    /\ Len(discovered[1]) = 2
    /\ Len(discovered[2]) = 1
    /\ ~Written(SkillMdPath(skillDirs[1]))
    /\ SkillMdWarning(skillDirs[1]) \in Range(warnings)
    /\ RootWritten(2)

\* C4: once an expansion has thrown, the only step left is main().catch: it
\* ends the process with exit code 1, and no variant, topic, general document
\* or root document is processed after the throw; the process does end.
C4_ExpansionErrorHalts ==
    /\ [][expansion.threw =>
            /\ pc = "catch"
            /\ pc' = "exited"
            /\ exitCode' = 1
            /\ UNCHANGED <<outFiles, warnings, swallowed, discovered, skillIdx,
                           templateIdx, language, templateInfos, generalFiles>>]_vars
    /\ (expansion.threw ~> (pc = "exited" /\ exitCode = 1))

\* C4 witness: the TypeScript expansion of the first topic of the first skill
\* threw after nothing was written; a second topic and a second skill were
\* still to come, and the process ended with exit code 1
C4_Witness ==
    /\ pc = "exited"
    /\ exitCode = 1
    /\ expansion.threw
    /\ thrown.kind = "Error"
    /\ language = "typescript"
    /\ skillIdx = 1
    /\ Len(skillDirs) = 2
    /\ templateIdx = 1
    /\ Len(templates) = 2
    /\ Len(discovered) = 1
    /\ DOMAIN outFiles = {}

-----------------------------------------------------------------------------
(* Properties of the validators, checked under SpecValidate *)

SomeFileFailed == \E k \in 1..Len(allResults) : ~allResults[k].success

\* C5 as stated: the process exits with a non-zero code if and only if at
\* least one validated file was classified as failed.
C5_NonZeroIffFileFailed ==
    (program \in Validators /\ pc = "exited") => (exitCode # 0 <=> SomeFileFailed)

\* C5 amended: the process exits with a non-zero code if and only if at least
\* one validated file was classified as failed or the listing of the source
\* directory was rejected; in the second case no file was discovered or
\* checked and no summary was printed.
C5_NonZeroIffFailedOrRejected ==
    (program \in Validators /\ pc = "exited") =>
        /\ exitCode # 0 <=> (SomeFileFailed \/ thrown # NoError)
        /\ thrown # NoError =>
              /\ thrown = FsError("readdir", <<SRC_DIR>>)
              /\ allResults = <<>>
              /\ discoveredFiles = <<>>
              /\ ~summary.printed

\* C5 witness: the Python validator checked two files of which the second
\* failed, and exited with code 1
C5_Witness ==
    /\ program = "validate-python"
    /\ pc = "exited"
    /\ exitCode = 1
    /\ thrown = NoError
    /\ Len(allResults) = 2
    /\ allResults[1].success
    /\ ~allResults[2].success

\* C6: at the summary, Total files is the number of example files discovered
\* across all skills, Failed is the number of results with success = false,
\* Passed + Failed = Total, and the exit code is non-zero exactly when
\* Failed is positive.
C6_SummaryCounts ==
    (program \in Validators /\ summary.printed) =>
        /\ summary.total = Len(discoveredFiles)
        /\ summary.failed = Cardinality({k \in 1..Len(allResults) : ~allResults[k].success})
        /\ summary.passed + summary.failed = summary.total
        /\ summary.passed >= 0
        /\ pc = "exited"
        /\ exitCode # 0 <=> summary.failed > 0

\* C6 witness: three files, one of them failed: Total 3, Passed 2, Failed 1
\* and exit code 1
C6_Witness ==
    /\ program \in Validators
    /\ pc = "exited"
    /\ summary = [printed |-> TRUE, total |-> 3, passed |-> 2, failed |-> 1]
    /\ Len(discoveredFiles) = 3
    /\ exitCode = 1

\* C7: a failing check of a file never aborts the run: the results are, in
\* discovery order, one per discovered file checked so far, no file is
\* discovered twice, no error is raised once a file has been discovered, and
\* when the run has ended every discovered file of every skill has its result.
C7_EveryFileCheckedOnce ==
    program \in Validators =>
        /\ Len(allResults) <= Len(discoveredFiles)
        /\ \A k \in 1..Len(allResults) : allResults[k].file = discoveredFiles[k]
        /\ \A j, k \in 1..Len(discoveredFiles) :
              discoveredFiles[j] = discoveredFiles[k] => j = k
        /\ discoveredFiles # <<>> => thrown = NoError /\ pc # "catch"
        /\ (pc \in {"summary", "exited"} /\ thrown = NoError) =>
              /\ Len(allResults) = Len(discoveredFiles)
              /\ skillIdx = Len(skillDirs) \/ skillDirs = <<>>
        /\ (pc = "exited" /\ thrown = NoError) => summary.printed

\* C7 witness: the first file's check exited non-zero and the file failed;
\* the other file of its skill and a file of the next skill were checked
\* after it
C7_Witness ==
    /\ program \in Validators
    /\ pc = "exited"
    /\ Len(allResults) = 3
    /\ ~allResults[1].success
    /\ allResults[2].success
    /\ allResults[3].file[2] = skillDirs[2]
    /\ allResults[1].file[2] = skillDirs[1]
    /\ lastRun.status = "failed"

-----------------------------------------------------------------------------
(* Properties of the TypeScript validateFile, checked under SpecValidateFile *)

\* the checker's output as validateFile reads it
CheckerOutput ==
    IF lastRun.stdout # <<>> THEN lastRun.stdout
    ELSE IF lastRun.stderr # <<>> THEN lastRun.stderr
    ELSE <<"Unknown error">>

\* the diagnostics of the checker's output: its header lines
Diagnostics == SelectSeq(Lines(CheckerOutput), HeaderLine)

FromDependency(d) == d[1] = "node_modules" /\ d[2] = "/"

\* d is a diagnostic about the file at path
AboutFile(d, path) ==
    /\ Len(d) > Len(PathText(path))
    /\ SubSeq(d, 1, Len(PathText(path))) = PathText(path)
    /\ d[Len(PathText(path)) + 1] = Loc

\* the blocks of a result's errors text: the stretches between "\n\n"
RECURSIVE Blocks(_)
Blocks(t) ==
    IF t = <<>> THEN <<>>
    ELSE IF \E i \in 1..Len(t) : t[i] = "\n\n"
    THEN LET i == CHOOSE i \in 1..Len(t) :
                     t[i] = "\n\n" /\ \A j \in 1..(i - 1) : t[j] # "\n\n"
         IN  <<SubSeq(t, 1, i - 1)>> \o Blocks(SubSeq(t, i + 1, Len(t)))
    ELSE <<t>>

TsCheckFailed ==
    /\ program = "validateFile"
    /\ language = "typescript"
    /\ pc = "returned"
    /\ lastRun.status = "failed"

\* C8 as stated: when the checker exits non-zero, dependency diagnostics are
\* dropped and only diagnostics about the file under test are kept; the file
\* fails exactly when a diagnostic survives.
C8_OnlyOwnDiagnosticsKept ==
    TsCheckFailed =>
        LET kept == Blocks(allResults[1].errors)
        IN  /\ \A k \in 1..Len(kept) : ~FromDependency(kept[k])
            /\ \A k \in 1..Len(kept) : AboutFile(kept[k], files[1])
            /\ allResults[1].success <=> kept = <<>>

\* C8 amended: when the checker exits non-zero, the diagnostics whose text
\* starts with node_modules/ are dropped and every other diagnostic is kept,
\* in output order, whether it is about the file under test or about another
\* file of the repository; the file is classified as failed exactly when at
\* least one diagnostic is kept and as passed when none is.
C8_DependencyDiagnosticsDropped ==
    TsCheckFailed =>
        LET kept == Blocks(allResults[1].errors)
            local == SelectSeq(Diagnostics, LAMBDA d : ~FromDependency(d))
        IN  /\ Len(kept) = Len(local)
            /\ \A k \in 1..Len(kept) : kept[k] = TrimEnd(local[k])
            /\ \A k \in 1..Len(kept) : ~FromDependency(kept[k])
            /\ allResults[1].success <=> local = <<>>
            /\ allResults[1].file = files[1]

\* C8 witness: the checker printed a dependency diagnostic, a diagnostic
\* about the file and one about an imported module; the last two are kept
C8_Witness ==
    /\ TsCheckFailed
    /\ Len(Diagnostics) = 3
    /\ FromDependency(Diagnostics[1])
    /\ AboutFile(Diagnostics[2], files[1])
    /\ AboutFile(Diagnostics[3], HelperPath)
    /\ Len(Blocks(allResults[1].errors)) = 2
    /\ ~allResults[1].success

-----------------------------------------------------------------------------
(* Properties of parseSnippets, checked under SpecParseSnippets *)

DistinctNames(rs) == \A j, k \in 1..Len(rs) : rs[j].name = rs[k].name => j = k

\* the lines without the blank lines at their start and at their end
RECURSIVE StripBlankLines(_)
StripBlankLines(ls) ==
    IF ls = <<>> THEN <<>>
    ELSE IF Head(ls) = <<>> THEN StripBlankLines(Tail(ls))
    ELSE IF ls[Len(ls)] = <<>> THEN StripBlankLines(SubSeq(ls, 1, Len(ls) - 1))
    ELSE ls

Parsed == program = "parseSnippets" /\ pc = "returned"

\* C11: a file of N regions with pairwise distinct names parses to exactly N
\* entries, one per region name, and each body is the text between the
\* region's markers with only the leading and trailing blank lines stripped.
C11_EveryRegionParsed ==
    (Parsed /\ DistinctNames(regions)) =>
        /\ DOMAIN snippets = {regions[k].name : k \in 1..Len(regions)}
        /\ \A k \in 1..Len(regions) :
              /\ regions[k].name \in DOMAIN snippets
              /\ snippets[regions[k].name] = Join(StripBlankLines(regions[k].body), "\n")

\* the region's body has a line that is not blank
HasCode(r) == \E l \in 1..Len(r.body) : r.body[l] # <<>>

\* the files whose regions all hold code keep C11's entry count, and their
\* bodies are the text between the markers, trimmed
C11_RegionsWithCodeParsed ==
    (Parsed /\ DistinctNames(regions) /\ \A k \in 1..Len(regions) : HasCode(regions[k])) =>
        /\ DOMAIN snippets = {regions[k].name : k \in 1..Len(regions)}
        /\ \A k \in 1..Len(regions) :
              snippets[regions[k].name] = Trim(Join(regions[k].body, "\n"))

\* C12: when a name is defined by more than one region, the result has one
\* entry for it, holding the body of the last such region.
C12_LastRegionWins ==
    Parsed =>
        \A j, k \in 1..Len(regions) :
            (j < k /\ regions[j].name = regions[k].name
                /\ \A l \in (k + 1)..Len(regions) : regions[l].name # regions[k].name) =>
                /\ regions[k].name \in DOMAIN snippets
                /\ snippets[regions[k].name] = Trim(Join(regions[k].body, "\n"))

\* C12 holds for the files whose regions all hold code
C12_LastRegionWinsWithCode ==
    (\A k \in 1..Len(regions) : HasCode(regions[k])) => C12_LastRegionWins

-----------------------------------------------------------------------------
(* Properties of parseFrontmatter, checked under SpecParseFrontmatter *)

FrontmatterParsed == program = "parseFrontmatter" /\ pc = "returned"

DocLines == Lines(parsedContent)

BeginsWithDelimiter == DocLines[1] = <<"---">>

\* the lines that close a header opened by the first line
ClosingLines == {j \in 3..Len(DocLines) : DocLines[j] # <<>> /\ DocLines[j][1] = "---"}

HeaderExists == BeginsWithDelimiter /\ ClosingLines # {}

\* the lines between the opening delimiter and the first closing one
HeaderLines ==
    LET j == CHOOSE x \in ClosingLines : \A y \in ClosingLines : x <= y
    IN  SubSeq(DocLines, 2, j - 1)

\* the header lines that start with the key
FieldLines(key) == SelectSeq(HeaderLines, LAMBDA l : l # <<>> /\ l[1] = key)

\* C13: parseFrontmatter returns for every document; without a leading "---"
\* line both fields are empty; with a header, a field whose line is absent is
\* empty; the header lines "name: Foo" and "description: Bar baz" give the
\* name "Foo" and the description "Bar baz".
C13_FrontmatterFields ==
    FrontmatterParsed =>
        /\ ~BeginsWithDelimiter => parsedInfo = NoInfo
        /\ (HeaderExists /\ FieldLines("name:") = <<>>) => parsedInfo.name = <<>>
        /\ (HeaderExists /\ FieldLines("description:") = <<>>) =>
              parsedInfo.description = <<>>
        /\ (HeaderExists /\ FieldLines("name:") = <<(<<"name:", " ", "Foo">>)>>) =>
              parsedInfo.name = <<"Foo">>
        /\ (HeaderExists
              /\ FieldLines("description:") = <<(<<"description:", " ", "Bar", " ", "baz">>)>>) =>
              parsedInfo.description = <<"Bar", " ", "baz">>

\* C13 witness: a header with both fields, then text
C13_Witness ==
    /\ FrontmatterParsed
    /\ DocLines = <<(<<"---">>), <<"name:", " ", "Foo">>,
                    <<"description:", " ", "Bar", " ", "baz">>, (<<"---">>), <<>>>>
    /\ parsedInfo = [name |-> <<"Foo">>, description |-> <<"Bar", " ", "baz">>]

\* a document without a leading delimiter that holds a name line
C13_NoHeaderWitness ==
    /\ FrontmatterParsed
    /\ ~BeginsWithDelimiter
    /\ \E k \in 1..Len(DocLines) : DocLines[k] = <<"name:", " ", "Foo">>
    /\ parsedInfo = NoInfo

-----------------------------------------------------------------------------
(* Properties of the index, checked under SpecBuild *)

\* position of the first token x of line l at or after i (Len + 1 when none)
RECURSIVE Find(_, _, _)
Find(l, x, i) ==
    IF i > Len(l) THEN i
    ELSE IF l[i] = x THEN i
    ELSE Find(l, x, i + 1)

\* the link target of an index entry: what stands between "./" and ") - "
Target(l) == SubSeq(l, Find(l, "./", 1) + 1, Find(l, ") - ", 1) - 1)

\* the link targets of the entries of an index, top to bottom
Targets(index) ==
    LET entries == SelectSeq(Lines(index), LAMBDA l : l # <<>> /\ l[1] = "- [")
    IN  [k \in 1..Len(entries) |-> Target(entries[k])]

\* the targets of the topics of the listed templates, for a language
TopicTargets(listed, lang) ==
    [k \in 1..Len(listed) |-> ReplaceFirst(listed[k], ".md", <<>>) \o <<"/", lang, ".md">>]

\* the index part of a written root document
IndexOf(out) == SubSeq(out, Len(SkillMdContent) + 1, Len(out))

\* C14: when a root document is written, its index lists, within each
\* language group, the topics in the order in which the directory listing
\* returned their templates, then the general documents in the order of
\* their directory listing.
C14_IndexKeepsListingOrder ==
    [][(program = "build" /\ pc = "copySkillMd" /\ warnings' = warnings) =>
          /\ SkillMdPath(skillDir) \in DOMAIN outFiles'
          /\ templates = discovered[skillIdx]
          /\ Targets(IndexOf(outFiles'[SkillMdPath(skillDir)]))
                = TopicTargets(templates, "typescript")
                  \o TopicTargets(templates, "python")
                  \o SubSeq(mdFiles, 1, Len(generalFiles))]_vars

\* C14 witness: the listing returned b before a, and faq before data-model;
\* the written index lists them so
C14_Witness ==
    /\ program = "build"
    /\ skillDirs # <<>>
    /\ Written(SkillMdPath(skillDirs[1]))
    /\ discovered[1] = <<(<<"b", ".md">>), (<<"a", ".md">>)>>
    /\ Targets(IndexOf(outFiles[SkillMdPath(skillDirs[1])]))
          = <<(<<"b", "/", "typescript", ".md">>), <<"a", "/", "typescript", ".md">>,
              <<"b", "/", "python", ".md">>, <<"a", "/", "python", ".md">>,
              <<"faq", ".md">>, <<"data-model", ".md">>>>

-----------------------------------------------------------------------------
(* Properties of copySkillMd, checked under SpecBuild *)

SkillMdSource(dir) == <<SRC_DIR, dir, <<"SKILL", ".md">>>>

\* the read of the source root document of skill s was rejected
SkillMdAbsent(s) == Rejected("readFile", SkillMdSource(skillDirs[s])) \in swallowed

\* C15: when the source SKILL.md of a skill cannot be read, copySkillMd logs
\* one warning, writes nothing and raises nothing: main goes on with the next
\* skill; a run that ends with exit code 0 after that has built every topic
\* of every skill and the root document of every later skill that has one.
C15_MissingSkillMdSkipped ==
    /\ [][(pc = "copySkillMd"
             /\ Rejected("readFile", SkillMdSource(skillDir)) \in swallowed' \ swallowed) =>
            /\ warnings' = Append(warnings, SkillMdWarning(skillDir))
            /\ outFiles' = outFiles
            /\ thrown' = NoError
            /\ skillIdx' = skillIdx + 1
            /\ pc' = IF skillIdx < Len(skillDirs) THEN "buildSkill" ELSE "done"]_vars
    /\ [](\A s \in 1..Len(skillDirs) :
            (program = "build" /\ SkillMdAbsent(s)) =>
                /\ ~RootWritten(s)
                /\ skillIdx > s
                /\ (pc = "exited" /\ exitCode = 0) =>
                      /\ AllVariantsWritten
                      /\ \A later \in (s + 1)..Len(skillDirs) :
                            \/ RootWritten(later)
                            \/ SkillMdWarning(skillDirs[later]) \in Range(warnings))

\* C15 witness: the first skill has no SKILL.md; the second skill was built
\* with its root document and the run ended with exit code 0
C15_Witness ==
    /\ program = "build"
    /\ pc = "exited"
    /\ exitCode = 0
    /\ Len(skillDirs) = 2
    /\ SkillMdAbsent(1)
    /\ warnings = <<SkillMdWarning(skillDirs[1])>>
    /\ ~Written(SkillMdPath(skillDirs[1]))
    /\ RootWritten(2)
    /\ Len(discovered[2]) >= 1
    /\ AllVariantsWritten

-----------------------------------------------------------------------------
(* Properties of the build's error handling, checked under SpecBuild *)

\* the operations whose rejection is never the absence of an optional
\* resource: creating a directory, copying a file that was just read, writing
\* an output file
NeverOptional == {"mkdir", "copyFile", "writeFile"}

\* C16: a filesystem failure that is not the absence of an optional resource
\* is fatal: a run in which such an operation was rejected ends with a
\* non-zero exit code.
C16_OtherFailuresFatal ==
    (program = "build" /\ pc = "exited"
        /\ \E r \in swallowed : r.op \in NeverOptional)
    => exitCode # 0

\* outside the catch blocks of getTemplates, loadSnippets,
\* copyGeneralMarkdownFiles and copySkillMd a rejected operation is fatal
C16_UncaughtFailuresFatal ==
    (program = "build" /\ pc = "exited" /\ thrown.kind = "fs") => exitCode = 1

-----------------------------------------------------------------------------
(* Further properties of replaceCodePlaceholders, checked under SpecExpand *)

Expanded == program = "expand" /\ pc = "returned" /\ ~expansion.threw

\* C17 as stated: on success the returned text holds no placeholder whose
\* name is in the mapping, whatever the snippet bodies hold.
C17_NoMappedPlaceholderInResult ==
    Expanded =>
        \A n \in Range(PlaceholderNames(expansion.value)) : n \notin DOMAIN snippets

\* the number of placeholders inside the bodies inserted for the matches ms
RECURSIVE BodyPlaceholders(_)
BodyPlaceholders(ms) ==
    IF ms = <<>> THEN 0
    ELSE Len(PlaceholderMatches(snippets[Head(ms).name], 1)) + BodyPlaceholders(Tail(ms))

\* C17 amended: on success every placeholder of the template was replaced by
\* a non-empty body of the mapping, and the only placeholder syntax in the
\* returned text is text of the inserted bodies, which is copied as it is
\* and not expanded again.
C17_NoTemplatePlaceholderInResult ==
    Expanded =>
        /\ \A n \in Range(PlaceholderNames(template)) : Resolved(n)
        /\ Len(PlaceholderMatches(expansion.value, 1))
              = BodyPlaceholders(PlaceholderMatches(template, 1))

\* C17 witness: the body of setup holds the placeholder of b, which is in
\* the mapping too; the returned text holds that placeholder
C17_Witness ==
    /\ Expanded
    /\ template = Placeholder(<<"setup">>)
    /\ snippets = (<<"setup">> :> Placeholder(<<"b">>)) @@ (<<"b">> :> <<"const x = 1;">>)
    /\ PlaceholderNames(expansion.value) = <<(<<"b">>)>>

\* C18: a placeholder whose name is in the mapping with an empty body counts
\* as found: its name is not reported as missing, and when every placeholder
\* name is in the mapping the expansion succeeds, with an empty fenced block
\* in the place of each such placeholder.
C18_EmptyBodyCountsAsFound ==
    (program = "expand" /\ pc = "returned"
        /\ \E n \in Range(PlaceholderNames(template)) :
              n \in DOMAIN snippets /\ snippets[n] = <<>>)
    => /\ \A n \in Range(expansion.missingSnippets) : n \notin DOMAIN snippets
       /\ (\A n \in Range(PlaceholderNames(template)) : n \in DOMAIN snippets) =>
             /\ ~expansion.threw
             /\ \A k \in 1..Len(PlaceholderMatches(template, 1)) :
                   LET m == PlaceholderMatches(template, 1)[k]
                   IN  snippets[m.name] = <<>> =>
                          \E i \in 1..Len(expansion.value) :
                              SubSeq(expansion.value, i, i + 4)
                                 = <<Backticks, language, "\n", "\n", Backticks>>

-----------------------------------------------------------------------------
(* Properties of buildSkill, checked under SpecBuild *)

\* the index of the current skill was generated with an entry for its
\* current topic
TopicIndexed ==
    /\ Written(SkillMdPath(skillDir))
    /\ \E k \in 1..Len(Targets(IndexOf(outFiles[SkillMdPath(skillDir)]))) :
          Targets(IndexOf(outFiles[SkillMdPath(skillDir)]))[k]
             = topicName \o <<"/", "typescript", ".md">>

\* C19 as stated: the parsed pair of a topic reaches index generation even
\* when the expansion of one of its variants failed.
C19_InfoReturnedDespiteFailure ==
    (program = "build" /\ pc = "exited" /\ expansion.threw) => TopicIndexed

\* C19 amended: the pair of a topic is recorded before any of its variants
\* is expanded; buildSkill returns the pairs of all topics of the skill when
\* no expansion failed; a failed expansion ends buildSkill and the run, and
\* then no pair of that skill is returned and no index is generated for it.
C19_InfoReturnedUnlessFailure ==
    program = "build" =>
        /\ pc \in {"loadSnippets", "expand", "writeVariant"} =>
              /\ Len(templateInfos) = templateIdx
              /\ templateInfos[templateIdx]
                    = [name |-> parseFrontmatter(template).name,
                       description |-> parseFrontmatter(template).description,
                       fileName |-> topicName]
        /\ pc \in {"copyGeneral", "copyGeneralFile", "copySkillMd"} =>
              /\ ~expansion.threw
              /\ Len(templateInfos) = Len(templates)
              /\ \A k \in 1..Len(templates) :
                    templateInfos[k].fileName = ReplaceFirst(templates[k], ".md", <<>>)
        /\ expansion.threw =>
              /\ pc \in {"catch", "exited"}
              /\ Len(templateInfos) = templateIdx
              /\ ~Written(SkillMdPath(skillDir))

\* C19 witness: the expansion of the second topic failed; two pairs had been
\* recorded, the run ended and the skill has no index
C19_Witness ==
    /\ program = "build"
    /\ pc = "exited"
    /\ expansion.threw
    /\ templateIdx = 2
    /\ Len(templateInfos) = 2
    /\ ~Written(SkillMdPath(skillDir))
    /\ Written(VariantPath(skillDir, TopicOf(skillIdx, 1), "python"))

\* ---------------------------------------------------------------------
\* Properties of the optional directories, checked under SpecTools
\* ---------------------------------------------------------------------

\* readdir of templates/, general/ or code/<language>/ of the skill at
\* index s was rejected
TemplatesAbsent(s) ==
    Rejected("readdir", <<SRC_DIR, skillDirs[s], <<"templates">>>>) \in swallowed

GeneralAbsent(s) ==
    Rejected("readdir", <<SRC_DIR, skillDirs[s], <<"general">>>>) \in swallowed

CodeAbsent(s) ==
    Rejected("readdir", codeDir(skillDirs[s], ValidatorLanguage)) \in swallowed

\* the example files the validator found in the code directory of skill s
FilesOf(s) ==
    {k \in 1..Len(discoveredFiles) :
        SubSeq(discoveredFiles[k], 1, 4) = codeDir(skillDirs[s], ValidatorLanguage)}

\* C20: an absent optional directory is an empty listing and never an
\* error. The step on which readdir of templates/ is rejected yields zero
\* topics and goes on to the general documents; the step on which readdir
\* of general/ is rejected yields zero general documents and goes on to
\* SKILL.md; the step on which readdir of code/<language>/ is rejected
\* yields zero files and goes on to the next skill, or to the summary after
\* the last skill. None of these steps throws or changes the exit code, and
\* a run that ends without an error has processed every skill: the build
\* wrote every variant of every topic it found, the validator counted every
\* file it found.
C20_AbsentDirectoryIsEmpty ==
    /\ [][(program = "build" /\ pc = "buildSkill"
             /\ Rejected("readdir", <<SRC_DIR, skillDir, <<"templates">>>>)
                    \in swallowed' \ swallowed) =>
            /\ templates' = <<>>
            /\ discovered' = Append(discovered, <<>>)
            /\ templateInfos' = <<>>
            /\ outFiles' = outFiles
            /\ thrown' = NoError
            /\ exitCode' = exitCode
            /\ skillIdx' = skillIdx
            /\ pc' = "copyGeneral"]_vars
    /\ [][(program = "build" /\ pc = "copyGeneral"
             /\ Rejected("readdir", <<SRC_DIR, skillDir, <<"general">>>>)
                    \in swallowed' \ swallowed) =>
            /\ mdFiles' = <<>>
            /\ generalFiles' = generalFiles
            /\ outFiles' = outFiles
            /\ thrown' = NoError
            /\ exitCode' = exitCode
            /\ skillIdx' = skillIdx
            /\ pc' = "copySkillMd"]_vars
    /\ [][(program \in Validators /\ pc = "getFiles"
             /\ Rejected("readdir", codeDir(skillDir, ValidatorLanguage))
                    \in swallowed' \ swallowed) =>
            /\ files' = <<>>
            /\ discoveredFiles' = discoveredFiles
            /\ allResults' = allResults
            /\ thrown' = NoError
            /\ exitCode' = exitCode
            /\ IF skillIdx < Len(skillDirs)
               THEN skillIdx' = skillIdx + 1 /\ pc' = "getFiles"
               ELSE skillIdx' = skillIdx /\ pc' = "summary"]_vars
    /\ [](\A s \in 1..Len(skillDirs) :
            /\ (program = "build" /\ TemplatesAbsent(s)) =>
                   /\ Len(discovered) >= s
                   /\ discovered[s] = <<>>
            /\ (program = "build" /\ GeneralAbsent(s)
                    /\ skillIdx = s /\ pc = "copySkillMd") =>
                   generalFiles = <<>>
            /\ (program = "build" /\ (TemplatesAbsent(s) \/ GeneralAbsent(s))
                    /\ pc = "exited" /\ exitCode = 0) =>
                   AllVariantsWritten
            /\ (program \in Validators /\ CodeAbsent(s)) =>
                   /\ FilesOf(s) = {}
                   /\ (pc = "exited" /\ thrown = NoError) =>
                         /\ summary.printed
                         /\ summary.total = Len(discoveredFiles)
                         /\ \A later \in (s + 1)..Len(skillDirs) :
                               \/ CodeAbsent(later)
                               \/ \A k \in FilesOf(later) :
                                     \E i \in 1..Len(allResults) :
                                        allResults[i].file = discoveredFiles[k])

\* C20 witness: the first skill has neither templates/ nor general/; the
\* build went on to the second skill, wrote its variants and both root
\* documents, and ended with exit code 0
C20_Witness ==
    /\ program = "build"
    /\ pc = "exited"
    /\ exitCode = 0
    /\ Len(skillDirs) = 2
    /\ TemplatesAbsent(1)
    /\ GeneralAbsent(1)
    /\ discovered[2] # <<>>
    /\ AllVariantsWritten
    /\ RootWritten(1)
    /\ RootWritten(2)

\* the validator's case: the first skill has no code/<language>/, the files
\* of the second skill were checked and the summary was printed
C20_ValidatorWitness ==
    /\ program \in Validators
    /\ pc = "exited"
    /\ thrown = NoError
    /\ Len(skillDirs) = 2
    /\ CodeAbsent(1)
    /\ FilesOf(2) # {}
    /\ summary.printed
    /\ summary.total = Cardinality(FilesOf(2))

\* ---------------------------------------------------------------------
\* Properties of the classification of a check, under SpecValidateFile
\* ---------------------------------------------------------------------

\* validateFile has returned after a check that exited non-zero or threw
CheckFailed ==
    /\ program = "validateFile"
    /\ pc = "returned"
    /\ lastRun.status = "failed"

\* C21 as stated: whenever the checker exits non-zero or throws for a file,
\* the file is recorded as failed, and the failed result carries non-empty
\* text taken from a non-empty output stream of the checker.
C21_NonZeroExitIsFailure ==
    CheckFailed =>
        /\ ~allResults[1].success
        /\ allResults[1].errors # <<>>

\* what holds for the Python validator: every non-zero exit is a failure
\* whose text is the trimmed stderr, else the trimmed stdout, else the
\* words Unknown error
C21_PythonNonZeroExitIsFailure ==
    (CheckFailed /\ language = "python") =>
        /\ ~allResults[1].success
        /\ allResults[1].errors # <<>>
        /\ allResults[1].errors =
              IF lastRun.stderr # <<>> THEN Trim(lastRun.stderr)
              ELSE IF lastRun.stdout # <<>> THEN Trim(lastRun.stdout)
              ELSE <<"Unknown error">>

\* what holds for both validators: a result recorded as failed comes from a
\* check that exited non-zero and carries non-empty text
C21_FailedHasText ==
    (program = "validateFile" /\ pc = "returned" /\ ~allResults[1].success) =>
        /\ lastRun.status = "failed"
        /\ allResults[1].errors # <<>>
        /\ lastRun.stdout # <<>> \/ lastRun.stderr # <<>>
              \/ allResults[1].errors = <<"Unknown error">>

\* ---------------------------------------------------------------------
\* Single pass of replaceCodePlaceholders, checked under SpecExpand
\* ---------------------------------------------------------------------

\* C22: the expansion is a single pass. Whether it fails, and the names it
\* reports as missing, depend on the placeholders of the template alone: a
\* name that occurs only inside a snippet body is never reported. On
\* success each body is inserted as it is, placeholder syntax included,
\* between its fence lines, and is not expanded again.
C22_SinglePass ==
    (program = "expand" /\ pc = "returned") =>
        /\ expansion.threw <=>
              \E n \in Range(PlaceholderNames(template)) : ~Resolved(n)
        /\ Range(expansion.missingSnippets)
              = {n \in Range(PlaceholderNames(template)) : ~Resolved(n)}
        /\ ~expansion.threw =>
              expansion.value = FencedFrom(template, 1, PlaceholderMatches(template, 1))

\* C22 witness: the body of setup holds the placeholder of b and b is not in
\* the mapping; the expansion succeeds and returns that placeholder inside
\* the fence, and nothing is reported missing
C22_Witness ==
    /\ program = "expand"
    /\ pc = "returned"
    /\ template = Placeholder(<<"setup">>)
    /\ snippets = (<<"setup">> :> Placeholder(<<"b">>))
    /\ ~expansion.threw
    /\ expansion.missingSnippets = <<>>
    /\ expansion.value =
          <<Backticks, language, "\n">> \o Placeholder(<<"b">>) \o <<"\n", Backticks>>

\* ---------------------------------------------------------------------
\* The field values of parseFrontmatter, under SpecParseFrontmatter
\* ---------------------------------------------------------------------

\* the trimmed remainder of the first header line that begins with the key,
\* empty when the header has no such line
FieldValue(key) ==
    IF FieldLines(key) = <<>> THEN <<>> ELSE Trim(Tail(FieldLines(key)[1]))

\* C23 as stated: the value of each field is the trimmed remainder of the
\* header line that begins with its key and nothing else; a field line with
\* an empty remainder takes nothing from the following line.
C23_FieldIsRestOfItsLine ==
    (FrontmatterParsed /\ HeaderExists) =>
        /\ parsedInfo.name = FieldValue("name:")
        /\ parsedInfo.description = FieldValue("description:")

\* the remainder of every field line of the header holds text
NoBareFieldLine ==
    \A k \in 1..Len(HeaderLines) :
        (HeaderLines[k] # <<>> /\ HeaderLines[k][1] \in {"name:", "description:"}) =>
            Trim(Tail(HeaderLines[k])) # <<>>

\* what holds: when no field line of the header is bare, each field is the
\* trimmed remainder of its first line; and in every case the result is the
\* result for the header alone, the text after it is not used
C23_FieldIsRestOfItsLineUnlessBare ==
    (FrontmatterParsed /\ HeaderExists) =>
        /\ NoBareFieldLine =>
              /\ parsedInfo.name = FieldValue("name:")
              /\ parsedInfo.description = FieldValue("description:")
        /\ parsedInfo =
              parseFrontmatter(DocumentOf(<<(<<"---">>)>> \o HeaderLines \o <<(<<"---">>)>>))

\* ---------------------------------------------------------------------
\* The output of a halted build, checked under SpecBuild
\* ---------------------------------------------------------------------

\* the run is on its failure path: an error was thrown to main().catch
Halting == program = "build" /\ thrown # NoError

\* C24: no rollback. No step of a build removes an output file; the step
\* that throws the fatal error, the rejection handler and the exit leave
\* every output file as it is; so when the run has halted, the variants of
\* every earlier skill and earlier topic are on disk, and so is the
\* typescript variant of the failing topic when the failure came while the
\* python variant was in progress.
C24_NoRollback ==
    /\ [][program = "build" => \A p \in DOMAIN outFiles : p \in DOMAIN outFiles']_vars
    /\ [][(program = "build" /\ (thrown' # NoError \/ pc \in {"catch", "done"})) =>
            outFiles' = outFiles]_vars
    /\ [](Halting =>
            /\ \A s \in 1..(skillIdx - 1) : \A t \in 1..Len(discovered[s]) :
                  \A l \in Range(LANGUAGES) :
                     Written(VariantPath(skillDirs[s], TopicOf(s, t), l))
            /\ \A t \in 1..(templateIdx - 1) : \A l \in Range(LANGUAGES) :
                  Written(VariantPath(skillDir, TopicOf(skillIdx, t), l))
            /\ language = "python" =>
                  Written(VariantPath(skillDir, topicName, "typescript")))

\* C24 witness: the python variant of the second topic of the second skill
\* failed to expand; the run has exited with code 1 and the typescript
\* variant of that topic, the first topic and the first skill's output are
\* on disk
C24_Witness ==
    /\ Halting
    /\ pc = "exited"
    /\ exitCode = 1
    /\ expansion.threw
    /\ language = "python"
    /\ skillIdx = 2
    /\ templateIdx = 2
    /\ Written(VariantPath(skillDir, topicName, "typescript"))
    /\ ~Written(VariantPath(skillDir, topicName, "python"))
    /\ Written(VariantPath(skillDir, TopicOf(2, 1), "python"))
    /\ discovered[1] # <<>>
    /\ Written(VariantPath(skillDirs[1], TopicOf(1, 1), "typescript"))
    /\ Written(SkillMdPath(skillDirs[1]))

\* ---------------------------------------------------------------------
\* The order of processing, checked under SpecTools
\* ---------------------------------------------------------------------

\* the output paths of the skill at index s
OutputOf(s) == {p \in DOMAIN outFiles : p[2] = skillDirs[s]}

\* every variant of the topics 1..n of the skill at index s is written
TopicsBuilt(s, n) ==
    \A t \in 1..n : \A l \in Range(LANGUAGES) :
        Written(VariantPath(skillDirs[s], TopicOf(s, t), l))

InTopic == pc \in {"loadSnippets", "expand", "writeVariant"}

AfterTopics == pc \in {"copyGeneral", "copyGeneralFile", "copySkillMd"}

\* C25: processing is strictly sequential. A step writes at most one output
\* file and records at most one result; skills are taken in listing order,
\* one at a time, and nothing is written for a skill before its turn;
\* within a skill every variant of every topic is written before a general
\* document is copied or the root document is written; within a topic the
\* typescript variant is written before the python snippet file is read,
\* and the topics before the current one are complete; in the validators
\* the result of every file before the current one is recorded, in
\* discovery order, when the check of the current file starts.
C25_StrictlySequential ==
    /\ [][/\ Cardinality(DOMAIN outFiles' \ DOMAIN outFiles) <= 1
          /\ Len(allResults') <= Len(allResults) + 1
          /\ skillIdx' \in {skillIdx, skillIdx + 1}
          /\ Len(discovered') \in {Len(discovered), Len(discovered) + 1}]_vars
    /\ [](program = "build" =>
            /\ \A s \in 1..Len(skillDirs) :
                  /\ s > skillIdx => OutputOf(s) = {}
                  /\ (s = skillIdx /\ pc \in {"buildSkill", "readTemplate"} \cup
                                             {"loadSnippets", "expand", "writeVariant",
                                              "copyGeneral"}) =>
                        \A p \in OutputOf(s) : Len(p) = 4
                  /\ (s < skillIdx /\ thrown = NoError) =>
                        TopicsBuilt(s, Len(discovered[s]))
            /\ (InTopic \/ pc = "readTemplate") => TopicsBuilt(skillIdx, templateIdx - 1)
            /\ (InTopic /\ language = "python") =>
                  Written(VariantPath(skillDir, topicName, "typescript"))
            /\ (InTopic /\ language = "typescript") =>
                  ~Written(VariantPath(skillDir, topicName, "python"))
            /\ AfterTopics => TopicsBuilt(skillIdx, Len(templates)))
    /\ [](program \in Validators /\ pc = "validateFile" =>
            /\ Len(allResults) = Len(discoveredFiles) - Len(files) + fileIdx - 1
            /\ \A k \in 1..Len(allResults) : allResults[k].file = discoveredFiles[k]
            /\ files[fileIdx] = discoveredFiles[Len(allResults) + 1])

\* C25 witness: the python snippet file of the second topic of the second
\* skill is about to be read; the typescript variant of that topic, the
\* first topic and the whole first skill are written, nothing else is
C25_Witness ==
    /\ program = "build"
    /\ pc = "loadSnippets"
    /\ language = "python"
    /\ skillIdx = 2
    /\ templateIdx = 2
    /\ Len(discovered[1]) = 2
    /\ TopicsBuilt(1, 2)
    /\ Written(SkillMdPath(skillDirs[1]))
    /\ TopicsBuilt(2, 1)
    /\ OutputOf(2) = {VariantPath(skillDir, TopicOf(2, 1), "typescript"),
                       VariantPath(skillDir, TopicOf(2, 1), "python"),
                       VariantPath(skillDir, topicName, "typescript")}

\* the validators' case: the second file of a skill is about to be checked
\* and the first file's result is recorded
C25_ValidatorWitness ==
    /\ program \in Validators
    /\ pc = "validateFile"
    /\ fileIdx = 2
    /\ Len(allResults) = 1
    /\ allResults[1].file = files[1]

\* ---------------------------------------------------------------------
\* The written root document, checked under SpecBuild
\* ---------------------------------------------------------------------

\* the step of copySkillMd that writes the root document of the skill
WritesRoot ==
    /\ program = "build"
    /\ pc = "copySkillMd"
    /\ warnings' = warnings

\* '- [name](./<topic>/<language>.md) - description' for the topic at index k
ExpectedEntry(k, lang) ==
    <<"- [">> \o templateInfos[k].name
    \o <<"](", "./">> \o TopicOf(skillIdx, k) \o <<"/", lang, ".md", ") - ">>
    \o templateInfos[k].description

\* the group of a language: its title, one entry per discovered topic, and
\* an empty line
ExpectedGroup(lang) ==
    <<(<<"### ", IF lang = "typescript" THEN "Typescript" ELSE "Python", "\n">>)>>
    \o [k \in 1..Len(discovered[skillIdx]) |-> ExpectedEntry(k, lang)]
    \o <<(<<>>)>>

\* the General group: its title, one entry per document read, an empty line
ExpectedGeneralGroup ==
    <<(<<"## General", "\n">>)>>
    \o [k \in 1..Len(generalFiles) |->
           <<"- [">> \o generalFiles[k].name \o <<"](", "./">> \o mdFiles[k]
           \o <<") - ">> \o generalFiles[k].description]
    \o <<(<<>>)>>

\* the root document is the source document followed by an index of a
\* typescript group, a python group and, when withGeneral, a General group
RootIsSourcePlusIndex(withGeneral) ==
    outFiles'[SkillMdPath(skillDir)] =
        SkillMdContent
        \o Join(<<(<<"\n", "## Available Topics", "\n">>)>>
                \o ExpectedGroup("typescript")
                \o ExpectedGroup("python")
                \o (IF withGeneral THEN ExpectedGeneralGroup ELSE <<>>),
                "\n")

\* C26 as stated: a written root document is the source root document
\* followed by the index: the typescript group, then the python group, each
\* with one entry '- [name](./<topic>/<language>.md) - description' per
\* discovered topic, then a General group that is present if and only if
\* the listing of general/ discovered at least one document.
C26_GeneralGroupIffDiscovered ==
    [][WritesRoot => RootIsSourcePlusIndex(mdFiles # <<>>)]_vars

\* what holds: the same with a General group that is present if and only if
\* at least one general document was read before copying stopped
C26_GeneralGroupIffRead ==
    [][WritesRoot => RootIsSourcePlusIndex(generalFiles # <<>>)]_vars

\* ---------------------------------------------------------------------
\* The links of a written index, checked under SpecBuild
\* ---------------------------------------------------------------------

\* the output path a link target of the index of skill dir points to
LinkedPath(dir, target) ==
    LET i == Find(target, "/", 1)
    IN  IF i <= Len(target)
        THEN <<OUTPUT_DIR, dir, SubSeq(target, 1, i - 1), SubSeq(target, i + 1, Len(target))>>
        ELSE <<OUTPUT_DIR, dir, target>>

\* the link targets of the index that the step of copySkillMd writes
WrittenTargets == Range(Targets(IndexOf(outFiles'[SkillMdPath(skillDir)])))

\* C27 as stated: every entry of a written index links to a file that the
\* run wrote or copied to the skill's output directory, also in runs in
\* which a copy or write step failed.
C27_EveryLinkResolves ==
    [][WritesRoot =>
          \A target \in WrittenTargets : LinkedPath(skillDir, target) \in DOMAIN outFiles']_vars

\* what holds: every link to a topic variant resolves, and a link to a
\* general document resolves unless the copy of that document was rejected
C27_LinkResolvesUnlessCopyRejected ==
    [][WritesRoot =>
          \A target \in WrittenTargets :
             \/ LinkedPath(skillDir, target) \in DOMAIN outFiles'
             \/ /\ Find(target, "/", 1) > Len(target)
                /\ Rejected("copyFile", LinkedPath(skillDir, target)) \in swallowed]_vars

\* ---------------------------------------------------------------------
\* A failed check without diagnostics, checked under SpecValidate
\* ---------------------------------------------------------------------

\* error.stdout || error.stderr || "Unknown error" for a run of the checker
ErrorOutputOf(run) ==
    IF run.stdout # <<>> THEN run.stdout
    ELSE IF run.stderr # <<>> THEN run.stderr
    ELSE <<"Unknown error">>

\* no line of the text begins a block 'path(line,col): error TSnnnn:'
NoDiagnosticBlock(text) == \A k \in 1..Len(Lines(text)) : ~HeaderLine(Lines(text)[k])

\* the check of the TypeScript validator that this step ran exited non-zero
\* and its output holds no diagnostic block
FailedWithoutBlock ==
    /\ program = "validate-typescript"
    /\ pc = "validateFile"
    /\ lastRun'.status = "failed"
    /\ NoDiagnosticBlock(ErrorOutputOf(lastRun'))

\* C28: in the TypeScript validator a check that exits non-zero with an
\* output that holds no diagnostic block records the file as passed: the
\* number of failed results and the exit code are what they were, and at
\* the end of the run Failed and the exit code count only the results
\* recorded as failed.
C28_NoDiagnosticMeansPassed ==
    /\ [][FailedWithoutBlock =>
            /\ allResults' = Append(allResults, Valid(files[fileIdx]))
            /\ Failed(allResults') = Failed(allResults)
            /\ exitCode' = exitCode
            /\ thrown' = thrown]_vars
    /\ [](program = "validate-typescript" /\ pc = "exited" /\ thrown = NoError =>
            /\ summary.failed = Len(Failed(allResults))
            /\ exitCode # 0 <=> Failed(allResults) # <<>>)

\* C28 witness: the only check of the run could not start the checker
\* (nothing on stdout, the shell's message on stderr); the file counts as
\* passed and the run ended with Failed 0 and exit code 0
C28_Witness ==
    /\ program = "validate-typescript"
    /\ pc = "exited"
    /\ Len(allResults) = 1
    /\ lastRun.status = "failed"
    /\ lastRun.stdout = <<>>
    /\ lastRun.stderr = <<"sh: 1: npx: not found", "\n">>
    /\ allResults[1].success
    /\ summary = [printed |-> TRUE, total |-> 1, passed |-> 1, failed |-> 0]
    /\ exitCode = 0

\* ---------------------------------------------------------------------
\* The output paths of a run, checked under SpecBuild
\* ---------------------------------------------------------------------

\* the destination of the general document the copy loop is at
GeneralDest == <<OUTPUT_DIR, skillDir, mdFiles[mdIdx]>>

\* C29 as stated: no output path is written more than once in a run: the
\* step that writes a variant, copies a general document or writes the
\* root document writes a path that no earlier step of the run wrote.
C29_NoPathWrittenTwice ==
    [][program = "build" =>
          /\ (pc = "writeVariant" /\ thrown' = NoError) =>
                ~Written(VariantPath(skillDir, topicName, language))
          /\ (pc = "copyGeneralFile" /\ mdIdx' = mdIdx + 1) => ~Written(GeneralDest)
          /\ (pc = "copySkillMd" /\ warnings' = warnings) =>
                ~Written(SkillMdPath(skillDir))]_vars

\* what holds: variants and general documents are written to fresh paths,
\* and the root document overwrites an output only when general/ holds a
\* document named SKILL.md, whose copy it replaces
C29_OnlyRootOverwritesGeneral ==
    [][program = "build" =>
          /\ (pc = "writeVariant" /\ thrown' = NoError) =>
                ~Written(VariantPath(skillDir, topicName, language))
          /\ (pc = "copyGeneralFile" /\ mdIdx' = mdIdx + 1) => ~Written(GeneralDest)
          /\ (pc = "copySkillMd" /\ warnings' = warnings
                /\ Written(SkillMdPath(skillDir))) =>
                /\ <<"SKILL", ".md">> \in Range(mdFiles)
                /\ outFiles[SkillMdPath(skillDir)] = GeneralContent
                /\ outFiles'[SkillMdPath(skillDir)] # GeneralContent]_vars

\* ---------------------------------------------------------------------
\* The files a run writes, checked under SpecTools
\* ---------------------------------------------------------------------

UnderSource(p) == p[1] = SRC_DIR

UnderOutput(p) == p[1] = OUTPUT_DIR

\* C30 as stated: no run creates or changes a file under the source root:
\* the build writes only under the output root and the validators write no
\* files.
C30_SourceTreeReadOnly ==
    /\ \A p \in DOMAIN outFiles : ~UnderSource(p)
    /\ program = "build" => \A p \in DOMAIN outFiles : UnderOutput(p)
    /\ program \in Validators => outFiles = EmptyMap

\* what holds: the build writes only under the output root, the TypeScript
\* validator writes nothing, and the only files of a run of the Python
\* validator are bytecode caches next to examples that compiled
C30_OnlyBytecodeUnderSource ==
    /\ program = "build" => \A p \in DOMAIN outFiles : UnderOutput(p)
    /\ program = "validate-typescript" => outFiles = EmptyMap
    /\ program = "validate-python" =>
          \A p \in DOMAIN outFiles :
             \E k \in 1..Len(allResults) :
                /\ allResults[k].success
                /\ p = CachePath(allResults[k].file)

====
